---- MODULE Spec2Model ----
(***************************************************************************)
(* OpenBoard: the client-side state container (stores/useAppStore.ts), its *)
(* persistence adapter (utils/storage.ts) and the validation predicates    *)
(* (utils/typeGuards.ts), as a state machine.                              *)
(*                                                                         *)
(* JavaScript values are tagged records so that a boolean, a string, null  *)
(* and undefined can sit in the same field.  A stored string is a record   *)
(* too: raw text, or the text of a JSON object given by its members.       *)
(* A content string is given by its shape: leading whitespace, the length  *)
(* of the part between the first and the last non-whitespace character,    *)
(* trailing whitespace.                                                    *)
(***************************************************************************)
EXTENDS Integers, Sequences, FiniteSets, TLC

VARIABLES
    channels,         \* AppState.channels
    activeChannelId,  \* AppState.activeChannelId
    messages,         \* AppState.messages: channel id -> list of messages
    theme,            \* AppState.theme
    sidebarOpen,      \* AppState.sidebarOpen
    searchQuery,      \* AppState.searchQuery
    isLoading,        \* AppState.isLoading
    error,            \* AppState.error
    ls,               \* window.localStorage: key -> stored string
    lsMode,           \* which localStorage calls throw
    now,              \* Date.now(), in ms since the module was loaded
    producedIds,      \* every identifier generateId has returned, in order
    pc,               \* position in the module-load sequence
    last,             \* the operation that produced this state, its inputs and outcome
    arg,              \* the argument of the selector or utility function called last
    ret,              \* the value that call returned
    delay,            \* debounceSearch: the delay the debounced function was made with
    timeoutId,        \* debounceSearch: the closure's timer handle, 0 for null
    timers,           \* the timers that were set and have neither fired nor been cleared
    events,           \* the calls of the debounced function and of its callback, in order
    retryConfig,      \* createRetryHandler: maxRetries, delay, backoffMultiplier, onRetry
    handler,          \* the retry handler: what it awaits, or how it settled
    attempt,          \* the retry handler's loop counter
    lastError,        \* the retry handler's lastError
    trace,            \* what the retry handler called, and how the operation settled
    location,         \* the router's location: the matched path and its channelId
    rendered,         \* ChannelRoute: what it was last rendered with, and the element
    sidebar,          \* Sidebar: its state and the element that has the focus
    boundary,         \* ErrorBoundary: its state and its props
    composer          \* MessageComposer: its props and its state

\* what lives outside the store and its adapter
\* a call of a selector or of a pure utility function
callVars == <<arg, ret>>

\* a debounced function and the timers of the event loop
debounceVars == <<delay, timeoutId, timers, events>>

\* one call of a retry handler
retryVars == <<retryConfig, handler, attempt, lastError, trace>>

\* the router and the channel route component
routeVars == <<location, rendered>>

\* the components that keep state of their own
componentVars == <<sidebar, boundary, composer>>

utilVars == <<callVars, debounceVars, retryVars, routeVars, componentVars>>

vars == <<channels, activeChannelId, messages, theme, sidebarOpen, searchQuery,
          isLoading, error, ls, lsMode, now, producedIds, pc, last, utilVars>>

storeVars == <<channels, activeChannelId, messages, theme, sidebarOpen,
               searchQuery, isLoading, error>>

----------------------------------------------------------------------------
(* Bounds *)

MaxSent == 2        \* accepted addMessage calls in one behaviour of the message path
MaxSentStore == 1   \* accepted addMessage calls in one behaviour of the whole store
MaxClock == 1       \* clock ticks in one behaviour
MaxRandom == 2      \* distinct outcomes of the random suffix
MaxTimeline == 3    \* messages in one timeline handed to the grouping
MaxCalls == 3       \* calls of the debounced function in one behaviour
MaxElapsed == 5     \* time that passes in one behaviour of the timers
DebounceDelay == 2  \* the delay of a debounced function, when it is not 0
MaxRetries == 2     \* the largest maxRetries a retry handler is configured with
MaxView == 3        \* messages in one channel list handed to the message view

----------------------------------------------------------------------------
(* JavaScript values *)

JsBool(b) == [type |-> "boolean", bool |-> b, str |-> ""]
JsStr(s) == [type |-> "string", bool |-> FALSE, str |-> s]
JsNull == [type |-> "null", bool |-> FALSE, str |-> ""]
JsUndefined == [type |-> "undefined", bool |-> FALSE, str |-> ""]

\* ToBoolean
Truthy(v) ==
    CASE v.type = "boolean" -> v.bool
      [] v.type = "string" -> v.str /= ""
      [] OTHER -> FALSE

\* a ?? b
Nullish(v) == v.type \in {"null", "undefined"}

\* a || b
JsOr(a, b) == IF Truthy(a) THEN a ELSE b

\* An object is the list of its <<key, value>> members in insertion order.
EmptyObject == <<>>

Keys(obj) == {obj[i][1] : i \in 1..Len(obj)}

\* obj.key
Get(obj, key) ==
    IF key \in Keys(obj)
    THEN obj[CHOOSE i \in 1..Len(obj) : obj[i][1] = key][2]
    ELSE JsUndefined

\* obj after obj[key] = val: an existing key keeps its place, a new key is last
Assign(obj, key, val) ==
    IF key \in Keys(obj)
    THEN [i \in 1..Len(obj) |-> IF obj[i][1] = key THEN <<key, val>> ELSE obj[i]]
    ELSE Append(obj, <<key, val>>)

\* a write of the new members alone
Spread_Overwrite(a, b) == b

\* { ...a, ...b }
RECURSIVE Spread(_, _)
Spread(a, b) ==
    IF b = <<>> THEN a
    ELSE Spread(Assign(a, b[1][1], b[1][2]), Tail(b))

----------------------------------------------------------------------------
(* Strings held by localStorage, and JSON *)

Absent == [kind |-> "absent", text |-> "", members |-> <<>>]       \* getItem gives null
Raw(s) == [kind |-> "raw", text |-> s, members |-> <<>>]           \* the string s
JsonText(m) == [kind |-> "object", text |-> "", members |-> m]     \* the text {"k":v,...}

\* the JSON text of one value
EncodeValue(v) ==
    CASE v.type = "boolean" -> [quoted |-> FALSE, text |-> IF v.bool THEN "true" ELSE "false"]
      [] v.type = "string" -> [quoted |-> TRUE, text |-> v.str]
      [] OTHER -> [quoted |-> FALSE, text |-> "null"]

\* the value of one JSON token
DecodeToken(t) ==
    IF t.quoted THEN JsStr(t.text)
    ELSE CASE t.text = "true" -> JsBool(TRUE)
           [] t.text = "false" -> JsBool(FALSE)
           [] OTHER -> JsNull

\* JSON.stringify(obj): members whose value is undefined are left out
RECURSIVE EncodeMembers(_)
EncodeMembers(obj) ==
    IF obj = <<>> THEN <<>>
    ELSE IF obj[1][2].type = "undefined" THEN EncodeMembers(Tail(obj))
    ELSE <<(<<obj[1][1], EncodeValue(obj[1][2])>>)>> \o EncodeMembers(Tail(obj))

JSONstringify(obj) == JsonText(EncodeMembers(obj))

\* raw texts that are valid JSON without being an object
JsonScalarTexts == {"null", "true", "42"}

\* JSON.parse(s): threw, or isObject and the object's members
JSONparse(s) ==
    CASE s.kind = "object" ->
            [threw |-> FALSE, isObject |-> TRUE,
             obj |-> [i \in 1..Len(s.members) |->
                        <<s.members[i][1], DecodeToken(s.members[i][2])>>]]
      [] s.kind = "raw" /\ s.text \in JsonScalarTexts ->
            [threw |-> FALSE, isObject |-> FALSE, obj |-> EmptyObject]
      [] OTHER -> [threw |-> TRUE, isObject |-> FALSE, obj |-> EmptyObject]

----------------------------------------------------------------------------
(* window.localStorage *)

THEME == "openboard-theme"
SETTINGS == "openboard-settings"
TEST == "__storage_test__"
StorageKeys == {THEME, SETTINGS, TEST}

Working == [getItem |-> FALSE, setItem |-> FALSE, removeItem |-> FALSE]
SetThrows == [getItem |-> FALSE, setItem |-> TRUE, removeItem |-> FALSE]
GetThrows == [getItem |-> TRUE, setItem |-> FALSE, removeItem |-> FALSE]
RemoveThrows == [getItem |-> FALSE, setItem |-> FALSE, removeItem |-> TRUE]
AllThrow == [getItem |-> TRUE, setItem |-> TRUE, removeItem |-> TRUE]
StorageModes == {Working, SetThrows, GetThrows, RemoveThrows, AllThrow}

lsGetItem(store, mode, key) ==
    IF mode.getItem THEN [threw |-> TRUE, val |-> Absent, ls |-> store]
    ELSE [threw |-> FALSE, val |-> store[key], ls |-> store]

lsSetItem(store, mode, key, value) ==
    IF mode.setItem THEN [threw |-> TRUE, ls |-> store]
    ELSE [threw |-> FALSE, ls |-> [store EXCEPT ![key] = value]]

lsRemoveItem(store, mode, key) ==
    IF mode.removeItem THEN [threw |-> TRUE, ls |-> store]
    ELSE [threw |-> FALSE, ls |-> [store EXCEPT ![key] = Absent]]

----------------------------------------------------------------------------
(* utils/typeGuards.ts *)

Themes == {"light", "dark", "system"}

isValidTheme(value) == value \in Themes

MAX_CONTENT_LENGTH == 2000

Content(lead, core, trail) == [lead |-> lead, core |-> core, trail |-> trail]

\* content.length
Length(c) == c.lead + c.core + c.trail

\* a trim that strips the leading whitespace only
Trim_StartOnly(c) == Content(0, c.core, c.trail)

\* content.trim()
Trim(c) == Content(0, c.core, 0)

validateMessageContent(content) ==
    Length(Trim(content)) > 0 /\ Length(content) <= MAX_CONTENT_LENGTH

----------------------------------------------------------------------------
(* utils/storage.ts: StorageManager.  Every method gives the store it      *)
(* leaves behind, its return value, and whether an exception left it.      *)

\* a probe whose exceptions reach the caller
isStorageAvailable_NoCatch(store, mode) ==
    LET s == lsSetItem(store, mode, TEST, Raw(TEST))
        r == lsRemoveItem(s.ls, mode, TEST)
    IN  IF s.threw THEN [ret |-> FALSE, ls |-> s.ls, threw |-> TRUE]
        ELSE IF r.threw THEN [ret |-> FALSE, ls |-> r.ls, threw |-> TRUE]
        ELSE [ret |-> TRUE, ls |-> r.ls, threw |-> FALSE]

isStorageAvailable(store, mode) ==
    LET s == lsSetItem(store, mode, TEST, Raw(TEST))
        r == lsRemoveItem(s.ls, mode, TEST)
    IN  IF s.threw THEN [ret |-> FALSE, ls |-> s.ls, threw |-> FALSE]          \* catch
        ELSE IF r.threw THEN [ret |-> FALSE, ls |-> r.ls, threw |-> FALSE]     \* catch
        ELSE [ret |-> TRUE, ls |-> r.ls, threw |-> FALSE]

getTheme(store, mode) ==
    LET a == isStorageAvailable(store, mode)
        g == lsGetItem(a.ls, mode, THEME)
    IN  IF a.threw THEN [ret |-> "light", ls |-> a.ls, threw |-> TRUE]
        ELSE IF ~a.ret THEN [ret |-> "light", ls |-> a.ls, threw |-> FALSE]
        ELSE IF g.threw THEN [ret |-> "light", ls |-> g.ls, threw |-> FALSE]   \* catch
        ELSE IF g.val.kind = "raw" /\ g.val.text /= "" /\ isValidTheme(g.val.text)
             THEN [ret |-> g.val.text, ls |-> g.ls, threw |-> FALSE]
        ELSE [ret |-> "light", ls |-> g.ls, threw |-> FALSE]

setTheme(store, mode, value) ==
    LET a == isStorageAvailable(store, mode)
        w == lsSetItem(a.ls, mode, THEME, Raw(value))
    IN  IF a.threw THEN [ls |-> a.ls, threw |-> TRUE]
        ELSE IF ~a.ret THEN [ls |-> a.ls, threw |-> FALSE]
        ELSE IF w.threw THEN [ls |-> w.ls, threw |-> FALSE]                    \* catch
        ELSE [ls |-> w.ls, threw |-> FALSE]

\* a read without the probe and without the try block
getSettings_Unguarded(store, mode) ==
    LET g == lsGetItem(store, mode, SETTINGS)
        stored == g.val
        p == JSONparse(stored)
    IN  IF g.threw THEN [ret |-> EmptyObject, ls |-> g.ls, threw |-> TRUE]
        ELSE IF stored.kind = "absent" \/ (stored.kind = "raw" /\ stored.text = "")
             THEN [ret |-> EmptyObject, ls |-> g.ls, threw |-> FALSE]
        ELSE IF p.threw THEN [ret |-> EmptyObject, ls |-> g.ls, threw |-> TRUE]
        ELSE [ret |-> IF p.isObject THEN p.obj ELSE EmptyObject,
              ls |-> g.ls, threw |-> FALSE]

getSettings(store, mode) ==
    LET a == isStorageAvailable(store, mode)
        g == lsGetItem(a.ls, mode, SETTINGS)
        stored == g.val
        p == JSONparse(stored)
    IN  IF a.threw THEN [ret |-> EmptyObject, ls |-> a.ls, threw |-> TRUE]
        ELSE IF ~a.ret THEN [ret |-> EmptyObject, ls |-> a.ls, threw |-> FALSE]
        ELSE IF g.threw THEN [ret |-> EmptyObject, ls |-> g.ls, threw |-> FALSE]   \* catch
        ELSE IF stored.kind = "absent" \/ (stored.kind = "raw" /\ stored.text = "")
             THEN [ret |-> EmptyObject, ls |-> g.ls, threw |-> FALSE]
        ELSE IF p.threw THEN [ret |-> EmptyObject, ls |-> g.ls, threw |-> FALSE]   \* catch
        ELSE [ret |-> IF p.isObject THEN p.obj ELSE EmptyObject,
              ls |-> g.ls, threw |-> FALSE]

setSettings(store, mode, settings) ==
    LET a == isStorageAvailable(store, mode)
        current == getSettings(a.ls, mode)
        updated == Spread(current.ret, settings)
        w == lsSetItem(current.ls, mode, SETTINGS, JSONstringify(updated))
    IN  IF a.threw THEN [ls |-> a.ls, threw |-> TRUE]
        ELSE IF ~a.ret THEN [ls |-> a.ls, threw |-> FALSE]
        ELSE IF current.threw THEN [ls |-> current.ls, threw |-> FALSE]        \* catch
        ELSE IF w.threw THEN [ls |-> w.ls, threw |-> FALSE]                    \* catch
        ELSE [ls |-> w.ls, threw |-> FALSE]

clearAll(store, mode) ==
    LET a == isStorageAvailable(store, mode)
        r1 == lsRemoveItem(a.ls, mode, THEME)
        r2 == lsRemoveItem(r1.ls, mode, SETTINGS)
    IN  IF a.threw THEN [ls |-> a.ls, threw |-> TRUE]
        ELSE IF ~a.ret THEN [ls |-> a.ls, threw |-> FALSE]
        ELSE IF r1.threw THEN [ls |-> r1.ls, threw |-> FALSE]                  \* catch
        ELSE IF r2.threw THEN [ls |-> r2.ls, threw |-> FALSE]                  \* catch
        ELSE [ls |-> r2.ls, threw |-> FALSE]

----------------------------------------------------------------------------
(* data/mockData.ts *)

MsPerMinute == 60000

Channel(id, name, description) == [id |-> id, name |-> name, description |-> description]

mockChannels == <<
    Channel("general", "General", "General discussion and announcements"),
    Channel("tech", "Tech Talk", "Technical discussions, programming, and development"),
    Channel("random", "Random", "Off-topic conversations and casual chat"),
    Channel("announcements", "Announcements", "Important updates and company news"),
    Channel("project-alpha", "Project Alpha", "Private discussion for Project Alpha team") >>

\* A message identifier `${text}-${stamp}-${suffix}`; the mock identifiers are
\* fixed texts.
MessageId(text, stamp, suffix) == [text |-> text, stamp |-> stamp, suffix |-> suffix]

Message(id, channelId, userId, content, timestamp, type, editedAt) ==
    [id |-> id, channelId |-> channelId, userId |-> userId, content |-> content,
     timestamp |-> timestamp, type |-> type, editedAt |-> editedAt]

\* A mock message: its content is already trimmed and has the given length,
\* its timestamp is createTimestamp(...), so many minutes before the load.
MockMessage(id, channelId, userId, length, minutes, type, editedAt) ==
    Message(MessageId(id, 0, 0), channelId, userId, Content(0, length, 0),
            minutes * MsPerMinute, type, editedAt)

mockGeneral == <<
        MockMessage("msg-gen-001", "general", "user-alice", 33, -10710, "text", <<>>),
        MockMessage("msg-gen-002", "general", "user-bob", 33, -10695, "text", <<>>),
        MockMessage("msg-gen-003", "general", "user-carol", 56, -10665, "text", <<>>),
        MockMessage("msg-gen-004", "general", "user-david", 56, -9500, "text", <<>>),
        MockMessage("msg-gen-005", "general", "user-emma", 61, -9475, "text", <<-9470 * MsPerMinute>>),
        MockMessage("msg-gen-006", "general", "user-frank", 59, -1570, "text", <<>>) >>

mockTech == <<
        MockMessage("msg-tech-001", "tech", "user-bob", 80, -8190, "text", <<>>),
        MockMessage("msg-tech-002", "tech", "user-alice", 68, -8145, "text", <<>>),
        MockMessage("msg-tech-003", "tech", "user-emma", 83, -6440, "text", <<>>),
        MockMessage("msg-tech-004", "tech", "user-david", 91, -4875, "text", <<>>),
        MockMessage("msg-tech-005", "tech", "user-carol", 79, -3760, "text", <<>>),
        MockMessage("msg-tech-006", "tech", "user-bob", 74, -3745, "text", <<>>) >>

mockRandom == <<
        MockMessage("msg-rand-001", "random", "user-carol", 84, -5445, "text", <<>>),
        MockMessage("msg-rand-002", "random", "user-frank", 62, -5430, "text", <<>>),
        MockMessage("msg-rand-003", "random", "user-emma", 73, -4095, "text", <<>>),
        MockMessage("msg-rand-004", "random", "user-alice", 70, -4070, "text", <<>>),
        MockMessage("msg-rand-005", "random", "user-david", 76, -2610, "text", <<>>) >>

mockAnnouncements == <<
        MockMessage("msg-ann-001", "announcements", "user-alice", 69, -14940, "system", <<>>),
        MockMessage("msg-ann-002", "announcements", "user-alice", 83, -12390, "text", <<>>),
        MockMessage("msg-ann-003", "announcements", "user-alice", 73, -7815, "text", <<>>),
        MockMessage("msg-ann-004", "announcements", "user-alice", 68, -2445, "text", <<>>) >>

mockProjectAlpha == <<
        MockMessage("msg-alpha-001", "project-alpha", "user-bob", 72, -9330, "text", <<>>),
        MockMessage("msg-alpha-002", "project-alpha", "user-emma", 60, -9315, "text", <<>>),
        MockMessage("msg-alpha-003", "project-alpha", "user-david", 85, -6680, "text", <<>>),
        MockMessage("msg-alpha-004", "project-alpha", "user-bob", 76, -3910, "text", <<>>) >>

MockChannelIds == {"general", "tech", "random", "announcements", "project-alpha"}

mockMessages ==
    [c \in MockChannelIds |->
        CASE c = "general" -> mockGeneral
          [] c = "tech" -> mockTech
          [] c = "random" -> mockRandom
          [] c = "announcements" -> mockAnnouncements
          [] OTHER -> mockProjectAlpha]

----------------------------------------------------------------------------
(* Inputs *)

\* channel identifiers a caller passes: loaded ones and one that is not loaded
InputChannelIds == {"general", "tech", "non-existent"}

InputUserIds == {"user-alice"}

InputTypes == {"text", "system"}

\* content strings around the two limits of the validation
InputContents == {
    Content(0, 0, 0),                          \* ''
    Content(2, 0, 1),                          \* whitespace only
    Content(0, 1, 0),                          \* one character
    Content(2, 1, 1),                          \* one character, padded
    Content(0, MAX_CONTENT_LENGTH, 0),         \* 'A'.repeat(2000)
    Content(0, MAX_CONTENT_LENGTH + 1, 0),     \* 'A'.repeat(2001)
    Content(1, MAX_CONTENT_LENGTH, 0),         \* 2000 characters after one blank
    Content(0, 1, MAX_CONTENT_LENGTH) }        \* one character and 2000 blanks

InputQueries == {"", "tech"}

InputErrors == {"Test error message"}

RandomSuffixes == 1..MaxRandom

Store(t, st) ==
    [k \in StorageKeys |-> IF k = THEME THEN t ELSE IF k = SETTINGS THEN st ELSE Absent]

\* what a browser that was used before holds
ReturningStores ==
    { Store(Raw("dark"),
            JsonText(<< <<"sidebarOpen", [quoted |-> FALSE, text |-> "false"]>>,
                        <<"lastActiveChannel", [quoted |-> TRUE, text |-> "tech"]>> >>)) }

\* what the browser may hold when the page is opened
InitialStores ==
    ReturningStores \cup
        { Store(Absent, Absent),
          Store(Raw("system"),
                JsonText(<< <<"sidebarOpen", [quoted |-> TRUE, text |-> "yes"]>>,
                            <<"lastActiveChannel", [quoted |-> TRUE, text |-> "archived"]>> >>)),
          Store(Raw("invalid-theme"), Raw("invalid json")),
          Store(Raw("light"), Raw("null")) }

----------------------------------------------------------------------------
(* stores/useAppStore.ts *)

INVALID_CONTENT == "Message content is invalid"

generateId(t, r) == MessageId("msg", t, r)

NoContent == Content(0, 0, 0)

\* the record of an operation: which one, its inputs, and how it ended
Did(op) ==
    [op |-> op, id |-> "", content |-> NoContent, accepted |-> FALSE, threw |-> FALSE,
     retTheme |-> "", retSettings |-> EmptyObject, partial |-> EmptyObject]

Ready == pc = "ready"

\* no selector or utility function was called yet
NoCall == arg = <<>> /\ ret = <<>>

\* nothing outside the store has happened
\* no debounced function was made
NoDebounce == delay = 0 /\ timeoutId = 0 /\ timers = {} /\ events = <<>>

NoError == [name |-> "", message |-> ""]

\* no retry handler was made
NoRetry ==
    /\ retryConfig = [maxRetries |-> 0, delay |-> 0, backoffMultiplier |-> 0, onRetry |-> FALSE]
    /\ handler = "idle" /\ attempt = 0 /\ lastError = NoError /\ trace = <<>>

Location(path, channelId) == [path |-> path, channelId |-> channelId]

Unmounted == [channelId |-> "", channels |-> <<>>, isLoading |-> FALSE, element |-> ""]

\* no channel route is mounted
NoRoute == location = Location("*", "") /\ rendered = Unmounted

\* an element of the document that can have the focus
Target(testid, id) == [testid |-> testid, id |-> id]

Body == Target("body", "")

Sidebar(localSearchQuery, selectedResultIndex, activeElement) ==
    [localSearchQuery |-> localSearchQuery, selectedResultIndex |-> selectedResultIndex,
     activeElement |-> activeElement]

ErrorBoundary(hasError, err, errorInfo, retryCount, enableRetry, fallback) ==
    [hasError |-> hasError, error |-> err, errorInfo |-> errorInfo,
     retryCount |-> retryCount, enableRetry |-> enableRetry, fallback |-> fallback]

MessageComposer(channelId, disabled, message) ==
    [channelId |-> channelId, disabled |-> disabled, message |-> message]

NoSidebar == sidebar = Sidebar("", -1, Body)

NoBoundary == boundary = ErrorBoundary(FALSE, NoError, JsUndefined, 0, JsUndefined, FALSE)

NoComposer == composer = MessageComposer("", FALSE, NoContent)

\* no component is mounted
NoComponents == NoSidebar /\ NoBoundary /\ NoComposer

UtilIdle == NoCall /\ NoDebounce /\ NoRetry /\ NoRoute /\ NoComponents

Init ==
    /\ UtilIdle
    /\ channels = <<>>
    /\ activeChannelId = JsNull
    /\ messages = <<>>
    /\ theme = "light"
    /\ sidebarOpen = JsBool(TRUE)
    /\ searchQuery = ""
    /\ isLoading = FALSE
    /\ error = JsNull
    /\ ls \in InitialStores
    /\ lsMode \in StorageModes
    /\ lsMode = Working \/ ls \in ReturningStores
    /\ now = 0
    /\ producedIds = <<>>
    /\ pc = "initializeStore"
    /\ last = Did("create")

\* a setActiveChannel that accepts the identifiers of loaded channels only
setActiveChannel_LoadedOnly(id) ==
    /\ Ready
    /\ LET settings == << <<"lastActiveChannel", JsStr(id)>> >>
           loaded == \E i \in 1..Len(channels) : channels[i].id = id
           w == IF loaded THEN setSettings(ls, lsMode, settings)
                ELSE [ls |-> ls, threw |-> FALSE]
       IN  /\ activeChannelId' = IF loaded THEN JsStr(id) ELSE activeChannelId
           /\ ls' = w.ls
           /\ last' = [Did("setActiveChannel") EXCEPT !.id = id, !.threw = w.threw,
                                                       !.partial = settings]
    /\ UNCHANGED <<channels, messages, theme, sidebarOpen, searchQuery, isLoading,
                   error, lsMode, now, producedIds, pc>>

setActiveChannel(id) ==
    /\ Ready
    /\ LET settings == << <<"lastActiveChannel", JsStr(id)>> >>
           w == setSettings(ls, lsMode, settings)
       IN  /\ activeChannelId' = JsStr(id)
           /\ ls' = w.ls
           /\ last' = [Did("setActiveChannel") EXCEPT !.id = id, !.threw = w.threw,
                                                       !.partial = settings]
    /\ UNCHANGED <<channels, messages, theme, sidebarOpen, searchQuery, isLoading,
                   error, lsMode, now, producedIds, pc>>

\* an addMessage that looks the channel's list up, and stores it, before it
\* validates
addMessage_ListBeforeValidation(channelId, userId, content, type, r) ==
    /\ Ready
    /\ LET channelMessages == IF channelId \in DOMAIN messages
                              THEN messages[channelId] ELSE <<>>
           newMessage == Message(generateId(now, r), channelId, userId,
                                 Trim(content), now, type, <<>>)
           valid == validateMessageContent(content)
       IN  /\ messages' = [c \in DOMAIN messages \cup {channelId} |->
                             IF c = channelId
                             THEN IF valid THEN Append(channelMessages, newMessage)
                                  ELSE channelMessages
                             ELSE messages[c]]
           /\ producedIds' = IF valid THEN Append(producedIds, newMessage.id)
                             ELSE producedIds
           /\ error' = IF valid THEN JsNull ELSE JsStr(INVALID_CONTENT)
           /\ last' = [Did("addMessage") EXCEPT !.id = channelId, !.content = content,
                                                !.accepted = valid]
    /\ UNCHANGED <<channels, activeChannelId, theme, sidebarOpen, searchQuery,
                   isLoading, ls, lsMode, now, pc>>

\* an addMessage that also records the channel as the last active one
addMessage_RecordsChannel(channelId, userId, content, type, r) ==
    /\ Ready
    /\ LET valid == validateMessageContent(content)
           newMessage == Message(generateId(now, r), channelId, userId,
                                 Trim(content), now, type, <<>>)
           channelMessages == IF channelId \in DOMAIN messages
                              THEN messages[channelId] ELSE <<>>
           w == setSettings(ls, lsMode, << <<"lastActiveChannel", JsStr(channelId)>> >>)
       IN  /\ messages' = IF valid
                          THEN [c \in DOMAIN messages \cup {channelId} |->
                                  IF c = channelId
                                  THEN Append(channelMessages, newMessage)
                                  ELSE messages[c]]
                          ELSE messages
           /\ producedIds' = IF valid THEN Append(producedIds, newMessage.id)
                             ELSE producedIds
           /\ error' = IF valid THEN JsNull ELSE JsStr(INVALID_CONTENT)
           /\ ls' = IF valid THEN w.ls ELSE ls
           /\ last' = [Did("addMessage") EXCEPT !.id = channelId, !.content = content,
                                                !.accepted = valid]
    /\ UNCHANGED <<channels, activeChannelId, theme, sidebarOpen, searchQuery,
                   isLoading, lsMode, now, pc>>

addMessage(channelId, userId, content, type, r) ==
    /\ Ready
    /\ IF ~validateMessageContent(content)
       THEN /\ error' = JsStr(INVALID_CONTENT)
            /\ last' = [Did("addMessage") EXCEPT !.id = channelId, !.content = content]
            /\ UNCHANGED <<messages, producedIds>>
       ELSE /\ LET newMessage == Message(generateId(now, r), channelId, userId,
                                         Trim(content), now, type, <<>>)
                   channelMessages == IF channelId \in DOMAIN messages
                                      THEN messages[channelId] ELSE <<>>
               IN  /\ messages' = [c \in DOMAIN messages \cup {channelId} |->
                                     IF c = channelId
                                     THEN Append(channelMessages, newMessage)
                                     ELSE messages[c]]
                   /\ producedIds' = Append(producedIds, newMessage.id)
            /\ error' = JsNull
            /\ last' = [Did("addMessage") EXCEPT !.id = channelId, !.content = content,
                                                 !.accepted = TRUE]
    /\ UNCHANGED <<channels, activeChannelId, theme, sidebarOpen, searchQuery,
                   isLoading, ls, lsMode, now, pc>>

\* a toggle between light and dark only
NextTheme_TwoWay(t) == IF t = "light" THEN "dark" ELSE "light"

NextTheme(t) ==
    CASE t = "light" -> "dark"
      [] t = "dark" -> "system"
      [] t = "system" -> "light"
      [] OTHER -> "light"

toggleTheme ==
    /\ Ready
    /\ LET newTheme == NextTheme(theme)
           w == setTheme(ls, lsMode, newTheme)
       IN  /\ theme' = IF w.threw THEN theme ELSE newTheme
           /\ ls' = w.ls
           /\ last' = [Did("toggleTheme") EXCEPT !.threw = w.threw]
    /\ UNCHANGED <<channels, activeChannelId, messages, sidebarOpen, searchQuery,
                   isLoading, error, lsMode, now, producedIds, pc>>

setSearchQuery(query) ==
    /\ Ready
    /\ searchQuery' = query
    /\ last' = Did("setSearchQuery")
    /\ UNCHANGED <<channels, activeChannelId, messages, theme, sidebarOpen, isLoading,
                   error, ls, lsMode, now, producedIds, pc>>

\* a toggleSidebar that persists the value it read
toggleSidebar_PersistsOld ==
    /\ Ready
    /\ LET newSidebarOpen == JsBool(~Truthy(sidebarOpen))
           settings == << <<"sidebarOpen", sidebarOpen>> >>
           w == setSettings(ls, lsMode, settings)
       IN  /\ sidebarOpen' = IF w.threw THEN sidebarOpen ELSE newSidebarOpen
           /\ ls' = w.ls
           /\ last' = [Did("toggleSidebar") EXCEPT !.threw = w.threw,
                                                    !.partial = settings]
    /\ UNCHANGED <<channels, activeChannelId, messages, theme, searchQuery, isLoading,
                   error, lsMode, now, producedIds, pc>>

toggleSidebar ==
    /\ Ready
    /\ LET newSidebarOpen == JsBool(~Truthy(sidebarOpen))
           settings == << <<"sidebarOpen", newSidebarOpen>> >>
           w == setSettings(ls, lsMode, settings)
       IN  /\ sidebarOpen' = IF w.threw THEN sidebarOpen ELSE newSidebarOpen
           /\ ls' = w.ls
           /\ last' = [Did("toggleSidebar") EXCEPT !.threw = w.threw,
                                                    !.partial = settings]
    /\ UNCHANGED <<channels, activeChannelId, messages, theme, searchQuery, isLoading,
                   error, lsMode, now, producedIds, pc>>

clearError ==
    /\ Ready
    /\ error' = JsNull
    /\ last' = Did("clearError")
    /\ UNCHANGED <<channels, activeChannelId, messages, theme, sidebarOpen, searchQuery,
                   isLoading, ls, lsMode, now, producedIds, pc>>

setLoading(b) ==
    /\ Ready
    /\ isLoading' = b
    /\ last' = Did("setLoading")
    /\ UNCHANGED <<channels, activeChannelId, messages, theme, sidebarOpen, searchQuery,
                   error, ls, lsMode, now, producedIds, pc>>

setError(e) ==
    /\ Ready
    /\ error' = JsStr(e)
    /\ last' = Did("setError")
    /\ UNCHANGED <<channels, activeChannelId, messages, theme, sidebarOpen, searchQuery,
                   isLoading, ls, lsMode, now, producedIds, pc>>

initializeStore ==
    /\ pc \in {"initializeStore", "ready"}
    /\ LET t == getTheme(ls, lsMode)
           g == getSettings(t.ls, lsMode)
           stored == Get(g.ret, "sidebarOpen")
       IN  /\ IF t.threw \/ g.threw
              THEN UNCHANGED <<theme, sidebarOpen>>
              ELSE /\ theme' = t.ret
                   /\ sidebarOpen' = IF Nullish(stored) THEN JsBool(TRUE) ELSE stored
           /\ ls' = g.ls
           /\ last' = [Did("initializeStore") EXCEPT !.threw = t.threw \/ g.threw]
    /\ pc' = IF pc = "initializeStore" THEN "loadMockData" ELSE pc
    /\ UNCHANGED <<channels, activeChannelId, messages, searchQuery, isLoading, error,
                   lsMode, now, producedIds>>

loadMockData ==
    /\ pc \in {"loadMockData", "ready"}
    /\ LET g == getSettings(ls, lsMode)
           first == IF Len(mockChannels) > 0 THEN JsStr(mockChannels[1].id)
                    ELSE JsUndefined
           defaultActiveChannel ==
               JsOr(JsOr(Get(g.ret, "lastActiveChannel"), first), JsNull)
       IN  /\ IF g.threw
              THEN UNCHANGED <<channels, messages, activeChannelId, isLoading>>
              ELSE /\ channels' = mockChannels
                   /\ messages' = mockMessages
                   /\ activeChannelId' = defaultActiveChannel
                   /\ isLoading' = FALSE
           /\ ls' = g.ls
           /\ last' = [Did("loadMockData") EXCEPT !.threw = g.threw]
    /\ pc' = "ready"
    /\ UNCHANGED <<theme, sidebarOpen, searchQuery, error, lsMode, now, producedIds>>

resetStore ==
    /\ Ready
    /\ channels' = <<>>
    /\ activeChannelId' = JsNull
    /\ messages' = <<>>
    /\ theme' = "light"
    /\ sidebarOpen' = JsBool(TRUE)
    /\ searchQuery' = ""
    /\ isLoading' = FALSE
    /\ error' = JsNull
    /\ last' = Did("resetStore")
    /\ UNCHANGED <<ls, lsMode, now, producedIds, pc>>

\* the clock moves on between two events
Tick ==
    /\ Ready
    /\ now < MaxClock
    /\ now' = now + 1
    /\ last' = Did("tick")
    /\ UNCHANGED <<storeVars, ls, lsMode, producedIds, pc>>

\* The whole store, every action; one send of one of two contents.
Next ==
    \/ \E id \in {"tech", "non-existent"} : setActiveChannel(id) /\ UNCHANGED utilVars
    \/ \E channelId \in {"general"}, userId \in {"user-alice"},
          content \in {Content(2, 1, 1), Content(2, 0, 1)}, type \in {"text"},
          r \in {1} :
          /\ validateMessageContent(content) => Len(producedIds) < MaxSentStore
          /\ addMessage(channelId, userId, content, type, r)
          /\ UNCHANGED utilVars
    \/ toggleTheme /\ UNCHANGED utilVars
    \/ \E query \in InputQueries : setSearchQuery(query) /\ UNCHANGED utilVars
    \/ toggleSidebar /\ UNCHANGED utilVars
    \/ clearError /\ UNCHANGED utilVars
    \/ \E b \in BOOLEAN : setLoading(b) /\ UNCHANGED utilVars
    \/ initializeStore /\ UNCHANGED utilVars
    \/ loadMockData /\ UNCHANGED utilVars
    \/ resetStore /\ UNCHANGED utilVars

Spec == Init /\ [][Next]_vars

\* The message path: every content and channel, with a browser store that
\* works and is empty.
InitMsg ==
    /\ Init
    /\ lsMode = Working
    /\ \A k \in StorageKeys : ls[k] = Absent

NextMsg ==
    \/ \E channelId \in InputChannelIds, userId \in InputUserIds,
          content \in InputContents, type \in InputTypes, r \in {1} :
          /\ validateMessageContent(content) => Len(producedIds) < MaxSent
          /\ addMessage(channelId, userId, content, type, r)
          /\ UNCHANGED utilVars
    \/ clearError /\ UNCHANGED utilVars
    \/ \E e \in InputErrors : setError(e) /\ UNCHANGED utilVars
    \/ initializeStore /\ UNCHANGED utilVars
    \/ loadMockData /\ UNCHANGED utilVars
    \/ resetStore /\ UNCHANGED utilVars

SpecMsg == InitMsg /\ [][NextMsg]_vars

\* The identifiers: sends at every clock value with every random suffix.
NextIds ==
    \/ \E channelId \in {"general", "non-existent"}, userId \in {"user-alice"},
          content \in {Content(0, 1, 0), Content(0, 0, 0)}, type \in {"text"},
          r \in RandomSuffixes :
          /\ validateMessageContent(content) => Len(producedIds) < MaxSent
          /\ addMessage(channelId, userId, content, type, r)
          /\ UNCHANGED utilVars
    \/ initializeStore /\ UNCHANGED utilVars
    \/ loadMockData /\ UNCHANGED utilVars
    \/ Tick /\ UNCHANGED utilVars

SpecIds == InitMsg /\ [][NextIds]_vars

----------------------------------------------------------------------------
(* The preferences alone: the module is loaded in a browser whose store      *)
(* works, the two toggles are used, and the page is loaded again.            *)

InitPrefs == Init /\ lsMode = Working

NextPrefs ==
    \/ initializeStore /\ UNCHANGED utilVars
    \/ loadMockData /\ pc /= "ready" /\ UNCHANGED utilVars
    \/ toggleTheme /\ UNCHANGED utilVars
    \/ toggleSidebar /\ UNCHANGED utilVars

SpecPrefs == InitPrefs /\ [][NextPrefs]_vars

----------------------------------------------------------------------------
(* The persistence adapter called on its own, as utils/storage.test.ts does *)

InputPartials == {
    EmptyObject,
    << <<"sidebarOpen", JsBool(FALSE)>> >>,
    << <<"lastActiveChannel", JsStr("tech")>> >>,
    << <<"lastActiveChannel", JsStr("general")>>, <<"sidebarOpen", JsBool(TRUE)>> >> }

callGetTheme ==
    /\ LET r == getTheme(ls, lsMode)
       IN  /\ ls' = r.ls
           /\ last' = [Did("getTheme") EXCEPT !.retTheme = r.ret, !.threw = r.threw]
    /\ UNCHANGED <<storeVars, lsMode, now, producedIds, pc>>

callSetTheme(value) ==
    /\ LET r == setTheme(ls, lsMode, value)
       IN  /\ ls' = r.ls
           /\ last' = [Did("setTheme") EXCEPT !.id = value, !.threw = r.threw]
    /\ UNCHANGED <<storeVars, lsMode, now, producedIds, pc>>

callGetSettings ==
    /\ LET r == getSettings(ls, lsMode)
       IN  /\ ls' = r.ls
           /\ last' = [Did("getSettings") EXCEPT !.retSettings = r.ret, !.threw = r.threw]
    /\ UNCHANGED <<storeVars, lsMode, now, producedIds, pc>>

callSetSettings(settings) ==
    /\ LET r == setSettings(ls, lsMode, settings)
       IN  /\ ls' = r.ls
           /\ last' = [Did("setSettings") EXCEPT !.partial = settings, !.threw = r.threw]
    /\ UNCHANGED <<storeVars, lsMode, now, producedIds, pc>>

callClearAll ==
    /\ LET r == clearAll(ls, lsMode)
       IN  /\ ls' = r.ls
           /\ last' = [Did("clearAll") EXCEPT !.threw = r.threw]
    /\ UNCHANGED <<storeVars, lsMode, now, producedIds, pc>>

NextStorage ==
    \/ callGetTheme /\ UNCHANGED utilVars
    \/ \E value \in Themes : callSetTheme(value) /\ UNCHANGED utilVars
    \/ callGetSettings /\ UNCHANGED utilVars
    \/ \E settings \in InputPartials : callSetSettings(settings) /\ UNCHANGED utilVars
    \/ callClearAll /\ UNCHANGED utilVars

SpecStorage == Init /\ [][NextStorage]_vars

----------------------------------------------------------------------------
(* Strings: String.prototype.toLowerCase, includes and trim, on the letters *)
(* of the ASCII alphabet                                                    *)

UpperCase == "ABCDEFGHIJKLMNOPQRSTUVWXYZ"
LowerCase == "abcdefghijklmnopqrstuvwxyz"

\* the i-th character of s
CharAt(s, i) == SubSeq(s, i, i)

LowerOf(c) ==
    IF \E i \in 1..Len(UpperCase) : CharAt(UpperCase, i) = c
    THEN CharAt(LowerCase, CHOOSE i \in 1..Len(UpperCase) : CharAt(UpperCase, i) = c)
    ELSE c

\* a toLowerCase that leaves the string as it is
toLowerCase_Identity(s) == s

RECURSIVE toLowerCase(_)
toLowerCase(s) ==
    IF Len(s) = 0 THEN ""
    ELSE LowerOf(CharAt(s, 1)) \o toLowerCase(SubSeq(s, 2, Len(s)))

includes(s, searchString) ==
    \E i \in 1..(Len(s) - Len(searchString) + 1) :
        SubSeq(s, i, i + Len(searchString) - 1) = searchString

WhiteSpace == {" ", "\t", "\n"}

RECURSIVE trimStart(_)
trimStart(s) ==
    IF Len(s) > 0 /\ CharAt(s, 1) \in WhiteSpace THEN trimStart(SubSeq(s, 2, Len(s)))
    ELSE s

RECURSIVE trimEnd(_)
trimEnd(s) ==
    IF Len(s) > 0 /\ CharAt(s, Len(s)) \in WhiteSpace
    THEN trimEnd(SubSeq(s, 1, Len(s) - 1))
    ELSE s

trim(s) == trimEnd(trimStart(s))

----------------------------------------------------------------------------
(* stores/useAppStore.ts: the selector getFilteredChannels *)

RECURSIVE filter(_, _)
filter(list, query) ==
    IF list = <<>> THEN <<>>
    ELSE LET channel == Head(list)
             keep == \/ includes(toLowerCase(channel.name), query)
                     \/ includes(toLowerCase(channel.description), query)
         IN  (IF keep THEN <<channel>> ELSE <<>>) \o filter(Tail(list), query)

\* a selector that matches the trimmed query
getFilteredChannels_TrimmedQuery(chs, search) ==
    IF trim(search) = "" THEN chs
    ELSE filter(chs, toLowerCase(trim(search)))

getFilteredChannels(chs, search) ==
    IF trim(search) = "" THEN chs
    ELSE filter(chs, toLowerCase(search))

\* queries that are empty, blank, in another case, padded, or match nothing
FilterQueries ==
    {"", "  ", "tech", "TECH", " tech", "Tech Talk", "alpha ", "discussion",
     "General", "an", "xyz", "\t"}

callGetFilteredChannels ==
    /\ arg' = <<>>
    /\ ret' = getFilteredChannels(channels, searchQuery)
    /\ last' = Did("getFilteredChannels")
    /\ UNCHANGED <<storeVars, routeVars, componentVars, ls, lsMode, now, producedIds, pc, debounceVars,
                   retryVars>>

\* The channel filter: the module is loaded, then queries are set and the
\* selector is called, on the loaded channels and on none.
NextFilter ==
    \/ initializeStore /\ UNCHANGED utilVars
    \/ loadMockData /\ UNCHANGED utilVars
    \/ \E query \in FilterQueries : setSearchQuery(query) /\ UNCHANGED utilVars
    \/ resetStore /\ UNCHANGED utilVars
    \/ callGetFilteredChannels

SpecFilter == InitMsg /\ [][NextFilter]_vars

----------------------------------------------------------------------------
(* utils/timestampUtils.ts: date separators.  A Date is its time in ms on   *)
(* an axis whose 0 is a local midnight; every local day has 24 hours.       *)

MsPerDay == 24 * 60 * MsPerMinute

\* date-fns startOfDay, as the number of the local day
startOfDay(date) == date \div MsPerDay

\* two dates less than a day apart
isSameDay_Within24Hours(dateLeft, dateRight) ==
    dateLeft - dateRight < MsPerDay /\ dateRight - dateLeft < MsPerDay

isSameDay(dateLeft, dateRight) == startOfDay(dateLeft) = startOfDay(dateRight)

shouldShowDateSeparator(currentMessage, previousMessage) ==
    IF previousMessage = JsUndefined THEN TRUE
    ELSE ~isSameDay(currentMessage.timestamp, previousMessage.timestamp)

\* the label: a fixed word, or the day written as weekday, month, day and year
formatDateSeparator(date, clock) ==
    IF isSameDay(date, clock) THEN [text |-> "Today", day |-> startOfDay(date)]
    ELSE IF isSameDay(date, clock - MsPerDay)
         THEN [text |-> "Yesterday", day |-> startOfDay(date)]
    ELSE [text |-> "EEEE, MMMM d, yyyy", day |-> startOfDay(date)]

DateSeparator(date, label) == [type |-> "date-separator", date |-> date, label |-> label]

groupMessagesByDate(msgs, clock) ==
    LET RECURSIVE loop(_)
        loop(i) ==
            IF i > Len(msgs) THEN <<>>
            ELSE LET currentMessage == msgs[i]
                     previousMessage == IF i > 1 THEN msgs[i - 1] ELSE JsUndefined
                     separator == DateSeparator(currentMessage.timestamp,
                                      formatDateSeparator(currentMessage.timestamp, clock))
                 IN  (IF shouldShowDateSeparator(currentMessage, previousMessage)
                      THEN <<separator>> ELSE <<>>)
                     \o <<currentMessage>> \o loop(i + 1)
    IN  IF Len(msgs) = 0 THEN <<>> ELSE loop(1)

\* two minutes before a midnight, two and ten minutes after it, a day later
TimelineTimes ==
    {0 - 2 * MsPerMinute, 2 * MsPerMinute, 10 * MsPerMinute, MsPerDay + 2 * MsPerMinute}

\* the timelines: every order of these times, chronological or not
Timelines ==
    { [i \in 1..Len(times) |->
          Message(MessageId("msg", times[i], i), "general", "user-alice",
                  Content(0, 1, 0), times[i], "text", <<>>)] :
      times \in UNION { [1..n -> TimelineTimes] : n \in 0..MaxTimeline } }

callGroupMessagesByDate ==
    /\ last.op = "create"
    /\ ret' = groupMessagesByDate(arg, now)
    /\ last' = Did("groupMessagesByDate")
    /\ UNCHANGED <<storeVars, routeVars, componentVars, ls, lsMode, now, producedIds, pc, arg,
                   debounceVars, retryVars>>

\* a store in a browser that holds nothing, with nothing else going on
Fresh ==
    /\ channels = <<>> /\ activeChannelId = JsNull /\ messages = <<>>
    /\ theme = "light" /\ sidebarOpen = JsBool(TRUE) /\ searchQuery = ""
    /\ isLoading = FALSE /\ error = JsNull
    /\ ls = Store(Absent, Absent) /\ lsMode = Working
    /\ now = 0 /\ producedIds = <<>> /\ pc = "initializeStore"
    /\ last = Did("create")

InitTimeline ==
    /\ Fresh /\ NoDebounce /\ NoRetry /\ NoRoute /\ NoComponents
    /\ arg \in Timelines /\ ret = <<>>

NextTimeline == callGroupMessagesByDate

SpecTimeline == InitTimeline /\ [][NextTimeline]_vars

----------------------------------------------------------------------------
(* utils/searchUtils.ts: debounceSearch, with the timers of the event loop. *)
(* Time is the clock `now`; a timer that is due fires before time moves on, *)
(* and always in a task of its own, after the code that set it has ended.   *)

InputDelays == {0, DebounceDelay}

DebounceArgs == {"test1", "test2"}

Event(kind, args) == [kind |-> kind, args |-> args, at |-> now]

Calls == {i \in 1..Len(events) : events[i].kind = "call"}

\* setTimeout(handler, timeout): the handle is a fresh positive number
setTimeout(pending, args, timeout) ==
    LET id == Cardinality(Calls) + 1
    IN  [id |-> id, timers |-> pending \cup {[id |-> id, due |-> now + timeout, args |-> args]}]

clearTimeout(pending, id) == {t \in pending : t.id /= id}

\* a debounced function that leaves the pending timer alone
debounced_NoClear(args) ==
    /\ LET s == setTimeout(timers, args, delay)
       IN  /\ timers' = s.timers
           /\ timeoutId' = s.id
    /\ events' = Append(events, Event("call", args))
    /\ last' = Did("debounced")
    /\ UNCHANGED <<storeVars, routeVars, componentVars, ls, lsMode, now, producedIds, pc, callVars,
                   delay, retryVars>>

\* the function debounceSearch(callback, delay) returns, called with args
debounced(args) ==
    /\ LET cleared == IF timeoutId /= 0 THEN clearTimeout(timers, timeoutId) ELSE timers
           s == setTimeout(cleared, args, delay)
       IN  /\ timers' = s.timers
           /\ timeoutId' = s.id
    /\ events' = Append(events, Event("call", args))
    /\ last' = Did("debounced")
    /\ UNCHANGED <<storeVars, routeVars, componentVars, ls, lsMode, now, producedIds, pc, callVars,
                   delay, retryVars>>

\* a timer fires: () => { callback(...args) }
timeout ==
    /\ \E t \in timers :
          /\ t.due <= now
          /\ \A u \in timers : <<t.due, t.id>> = <<u.due, u.id>> \/ t.due < u.due
                                  \/ (t.due = u.due /\ t.id < u.id)
          /\ timers' = timers \ {t}
          /\ events' = Append(events, Event("callback", t.args))
    /\ last' = Did("timeout")
    /\ UNCHANGED <<storeVars, routeVars, componentVars, ls, lsMode, now, producedIds, pc, callVars,
                   delay, timeoutId,
                   retryVars>>

\* time passes
elapse ==
    /\ now < MaxElapsed
    /\ \A t \in timers : t.due > now
    /\ now' = now + 1
    /\ last' = Did("elapse")
    /\ UNCHANGED <<storeVars, routeVars, componentVars, ls, lsMode, producedIds, pc, callVars,
                   debounceVars, retryVars>>

InitDebounce ==
    /\ Fresh /\ NoCall /\ NoRetry /\ NoRoute /\ NoComponents
    /\ delay \in InputDelays
    /\ timeoutId = 0 /\ timers = {} /\ events = <<>>

NextDebounce ==
    \/ \E args \in DebounceArgs : Cardinality(Calls) < MaxCalls /\ debounced(args)
    \/ timeout
    \/ elapse

SpecDebounce == InitDebounce /\ [][NextDebounce]_vars

----------------------------------------------------------------------------
(* utils/errorHandling.ts: the classification of errors *)

Error(name, message) == [name |-> name, message |-> message]

\* patterns.some(pattern => pattern.test(message)), the patterns being /text/i
some(patterns, message) == \E pattern \in patterns : includes(toLowerCase(message), pattern)

isNetworkError(err) ==
    LET networkErrorPatterns == {"network", "fetch", "timeout", "connection", "offline"}
        isNetworkErrorName == err.name = "NetworkError" \/ err.name = "TypeError"
        hasNetworkMessage == some(networkErrorPatterns, err.message)
    IN  isNetworkErrorName \/ hasNetworkMessage

isValidationError(err) ==
    LET validationErrorPatterns == {"validation", "invalid", "required", "format"}
        isValidationErrorName == err.name = "ValidationError"
        hasValidationMessage == some(validationErrorPatterns, err.message)
    IN  isValidationErrorName \/ hasValidationMessage

\* a classification that looks at the network first
isRetryableError_NetworkFirst(err) ==
    LET retryablePatterns ==
            {"temporary", "rate limit", "service unavailable", "internal server error"}
    IN  IF isNetworkError(err) THEN TRUE
        ELSE IF isValidationError(err) THEN FALSE
        ELSE some(retryablePatterns, err.message)

isRetryableError(err) ==
    LET retryablePatterns ==
            {"temporary", "rate limit", "service unavailable", "internal server error"}
    IN  IF isValidationError(err) THEN FALSE
        ELSE IF isNetworkError(err) THEN TRUE
        ELSE some(retryablePatterns, err.message)

ErrorNames == {"Error", "TypeError", "NetworkError", "ValidationError"}

ErrorMessages ==
    {"Persistent failure", "Temporary failure", "Invalid input", "Network request failed",
     "Failed to fetch", "Request timeout", "Regular error", "Rate Limit exceeded",
     "503 SERVICE UNAVAILABLE", "Internal Server Error", "Invalid network format",
     "Connection required", "temporarily offline", ""}

callIsRetryableError ==
    /\ last.op = "create"
    /\ ret' = isRetryableError(arg)
    /\ last' = Did("isRetryableError")
    /\ UNCHANGED <<storeVars, routeVars, componentVars, ls, lsMode, now, producedIds, pc, arg,
                   debounceVars, retryVars>>

InitErrors ==
    /\ Fresh /\ NoDebounce /\ NoRetry /\ NoRoute /\ NoComponents
    /\ arg \in {Error(name, message) : name \in ErrorNames, message \in ErrorMessages}
    /\ ret = <<>>

NextErrors == callIsRetryableError

SpecErrors == InitErrors /\ [][NextErrors]_vars

----------------------------------------------------------------------------
(* utils/errorHandling.ts: createRetryHandler.  The handler runs until it   *)
(* awaits the operation or the backoff timer; the operation settles and the *)
(* timer fires in tasks of their own.                                       *)

DefaultRetryConfig ==
    [maxRetries |-> 3, delay |-> 1000, backoffMultiplier |-> 2, onRetry |-> FALSE]

RetryConfigs ==
    {DefaultRetryConfig} \cup
        [maxRetries : 0..MaxRetries, delay : {10}, backoffMultiplier : {2, 3},
         onRetry : BOOLEAN]

\* what the operation rejects with: errors, and a string that is no Error
Rejections ==
    {[isError |-> TRUE, name |-> "Error", message |-> "Temporary failure"],
     [isError |-> TRUE, name |-> "Error", message |-> "Persistent failure"],
     [isError |-> TRUE, name |-> "ValidationError", message |-> "Invalid input"],
     [isError |-> FALSE, name |-> "", message |-> "Failed to fetch"]}

RECURSIVE pow(_, _)
pow(base, exponent) == IF exponent = 0 THEN 1 ELSE base * pow(base, exponent - 1)

Traced(kind, err, number) == [kind |-> kind, error |-> err, number |-> number]

\* the handler is called: attempt 0 invokes the operation
retryHandler ==
    /\ handler = "idle"
    /\ attempt' = 0
    /\ trace' = Append(trace, Traced("operation", NoError, 0))
    /\ handler' = "operation"
    /\ last' = Did("retryHandler")
    /\ UNCHANGED <<storeVars, routeVars, componentVars, ls, lsMode, now, producedIds, pc, callVars,
                   debounceVars,
                   retryConfig, lastError>>

\* the operation's promise is fulfilled: return await operation()
operationFulfilled ==
    /\ handler = "operation"
    /\ trace' = Append(trace, Traced("fulfilled", NoError, attempt))
    /\ handler' = "resolved"
    /\ last' = Did("operationFulfilled")
    /\ UNCHANGED <<storeVars, routeVars, componentVars, ls, lsMode, now, producedIds, pc, callVars,
                   debounceVars,
                   retryConfig, attempt, lastError>>

\* a catch block that retries whatever the error is
operationRejected_RetryAll(err) ==
    /\ handler = "operation"
    /\ LET e == IF err.isError THEN Error(err.name, err.message)
                ELSE Error("Error", err.message)
           waitTime == retryConfig.delay * pow(retryConfig.backoffMultiplier, attempt)
           failed == Append(trace, Traced("rejected", e, attempt))
           called == IF retryConfig.onRetry
                     THEN Append(failed, Traced("onRetry", e, attempt + 1)) ELSE failed
       IN  /\ lastError' = e
           /\ IF attempt = retryConfig.maxRetries
              THEN /\ handler' = "rejected"
                   /\ trace' = failed
              ELSE /\ handler' = "timer"
                   /\ trace' = Append(called, Traced("setTimeout", NoError, waitTime))
    /\ last' = Did("operationRejected")
    /\ UNCHANGED <<storeVars, routeVars, componentVars, ls, lsMode, now, producedIds, pc, callVars,
                   debounceVars,
                   retryConfig, attempt>>

\* a catch block whose wait grows by the same amount with every attempt
operationRejected_LinearBackoff(err) ==
    /\ handler = "operation"
    /\ LET e == IF err.isError THEN Error(err.name, err.message)
                ELSE Error("Error", err.message)
           waitTime == retryConfig.delay * retryConfig.backoffMultiplier * (attempt + 1)
           failed == Append(trace, Traced("rejected", e, attempt))
           called == IF retryConfig.onRetry
                     THEN Append(failed, Traced("onRetry", e, attempt + 1)) ELSE failed
       IN  /\ lastError' = e
           /\ IF attempt = retryConfig.maxRetries \/ ~isRetryableError(e)
              THEN /\ handler' = "rejected"
                   /\ trace' = failed
              ELSE /\ handler' = "timer"
                   /\ trace' = Append(called, Traced("setTimeout", NoError, waitTime))
    /\ last' = Did("operationRejected")
    /\ UNCHANGED <<storeVars, routeVars, componentVars, ls, lsMode, now, producedIds, pc, callVars,
                   debounceVars,
                   retryConfig, attempt>>

\* the operation's promise is rejected: the catch block
operationRejected(err) ==
    /\ handler = "operation"
    /\ LET e == IF err.isError THEN Error(err.name, err.message)
                ELSE Error("Error", err.message)
           waitTime == retryConfig.delay * pow(retryConfig.backoffMultiplier, attempt)
           failed == Append(trace, Traced("rejected", e, attempt))
           called == IF retryConfig.onRetry
                     THEN Append(failed, Traced("onRetry", e, attempt + 1)) ELSE failed
       IN  /\ lastError' = e
           /\ IF attempt = retryConfig.maxRetries \/ ~isRetryableError(e)
              THEN /\ handler' = "rejected"
                   /\ trace' = failed
              ELSE /\ handler' = "timer"
                   /\ trace' = Append(called, Traced("setTimeout", NoError, waitTime))
    /\ last' = Did("operationRejected")
    /\ UNCHANGED <<storeVars, routeVars, componentVars, ls, lsMode, now, producedIds, pc, callVars,
                   debounceVars,
                   retryConfig, attempt>>

\* the backoff timer fires: the next turn of the loop invokes the operation
backoffElapsed ==
    /\ handler = "timer"
    /\ attempt' = attempt + 1
    /\ IF attempt + 1 <= retryConfig.maxRetries
       THEN /\ trace' = Append(trace, Traced("operation", NoError, attempt + 1))
            /\ handler' = "operation"
       ELSE /\ trace' = trace
            /\ handler' = "rejected"
    /\ last' = Did("backoffElapsed")
    /\ UNCHANGED <<storeVars, routeVars, componentVars, ls, lsMode, now, producedIds, pc, callVars,
                   debounceVars,
                   retryConfig, lastError>>

InitRetry ==
    /\ Fresh /\ NoCall /\ NoDebounce /\ NoRoute /\ NoComponents
    /\ retryConfig \in RetryConfigs
    /\ handler = "idle" /\ attempt = 0 /\ lastError = NoError /\ trace = <<>>

NextRetry ==
    \/ retryHandler
    \/ operationFulfilled
    \/ \E err \in Rejections : operationRejected(err)
    \/ backoffElapsed

SpecRetry == InitRetry /\ [][NextRetry]_vars

\* every operation settles and every timer fires
SpecRetryFair ==
    /\ SpecRetry
    /\ WF_vars(operationFulfilled \/ \E err \in Rejections : operationRejected(err))
    /\ WF_vars(backoffElapsed)

----------------------------------------------------------------------------
(* App.tsx: the channel route.  React renders the component and runs its    *)
(* effect, with the values of that render, before the next event is handled. *)

ChannelPath == "/channel/:channelId"

NotFoundChannelPath == "/404/channel"

\* the dependencies of the effect differ from those of the last render
Stale ==
    /\ location.path = ChannelPath
    /\ \/ rendered = Unmounted
       \/ <<rendered.channelId, rendered.channels, rendered.isLoading>> /=
              <<location.channelId, channels, isLoading>>

\* a channel route that does not look the identifier up
ChannelRoute_NoValidation ==
    /\ Ready /\ Stale
    /\ LET channelId == location.channelId
           channelExists == \E i \in 1..Len(channels) : channels[i].id = channelId
           element == IF isLoading THEN "LoadingSpinner"
                      ELSE IF channelId = "" THEN "NotFound"
                      ELSE IF ~channelExists THEN "NotFound type=channel"
                      ELSE "Layout"
       IN  /\ rendered' = [channelId |-> channelId, channels |-> channels,
                           isLoading |-> isLoading, element |-> element]
           /\ IF channelId = "" \/ isLoading
              THEN /\ last' = Did("ChannelRoute")
                   /\ UNCHANGED <<storeVars, ls, lsMode, now, producedIds, pc>>
              ELSE setActiveChannel(channelId)
           /\ UNCHANGED location
    /\ UNCHANGED <<callVars, debounceVars, retryVars, componentVars>>

\* the component is rendered and its effect runs
ChannelRoute ==
    /\ Ready /\ Stale
    /\ LET channelId == location.channelId
           channelExists == \E i \in 1..Len(channels) : channels[i].id = channelId
           element == IF isLoading THEN "LoadingSpinner"
                      ELSE IF channelId = "" THEN "NotFound"
                      ELSE IF ~channelExists THEN "NotFound type=channel"
                      ELSE "Layout"
           shown == [channelId |-> channelId, channels |-> channels,
                     isLoading |-> isLoading, element |-> element]
       IN  IF channelId = "" \/ isLoading
           THEN /\ rendered' = shown
                /\ last' = Did("ChannelRoute")
                /\ UNCHANGED <<storeVars, ls, lsMode, now, producedIds, pc, location>>
           ELSE IF channelExists
           THEN /\ rendered' = shown
                /\ setActiveChannel(channelId)
                /\ UNCHANGED location
           ELSE IF Len(channels) > 0
           THEN /\ rendered' = Unmounted
                /\ location' = Location(NotFoundChannelPath, "")
                /\ last' = Did("navigate")
                /\ UNCHANGED <<storeVars, ls, lsMode, now, producedIds, pc>>
           ELSE /\ rendered' = shown
                /\ last' = Did("ChannelRoute")
                /\ UNCHANGED <<storeVars, ls, lsMode, now, producedIds, pc, location>>
    /\ UNCHANGED <<callVars, debounceVars, retryVars, componentVars>>

\* the user opens /channel/<channelId>
visit(channelId) ==
    /\ location' = Location(ChannelPath, channelId)
    /\ rendered' = IF location.path = ChannelPath THEN rendered ELSE Unmounted
    /\ last' = Did("visit")
    /\ UNCHANGED <<storeVars, ls, lsMode, now, producedIds, pc, callVars, debounceVars,
                   retryVars, componentVars>>

InitRoute ==
    /\ Fresh /\ NoCall /\ NoDebounce /\ NoRetry /\ NoComponents
    /\ location \in {Location(ChannelPath, channelId) : channelId \in InputChannelIds}
    /\ rendered = Unmounted

\* The channel route over a store that is loaded, reset and set loading;
\* every event finds the component rendered.
NextRoute ==
    \/ ChannelRoute
    \/ \E channelId \in InputChannelIds : ~Stale /\ visit(channelId)
    \/ (~Ready \/ ~Stale) /\ initializeStore
          /\ UNCHANGED <<callVars, debounceVars, retryVars, routeVars, componentVars>>
    \/ (~Ready \/ ~Stale) /\ loadMockData
          /\ UNCHANGED <<callVars, debounceVars, retryVars, routeVars, componentVars>>
    \/ \E b \in BOOLEAN : ~Stale /\ setLoading(b)
          /\ UNCHANGED <<callVars, debounceVars, retryVars, routeVars, componentVars>>
    \/ ~Stale /\ resetStore /\ UNCHANGED <<callVars, debounceVars, retryVars, routeVars, componentVars>>

SpecRoute == InitRoute /\ [][NextRoute]_vars

----------------------------------------------------------------------------
(* components/MessageView/MessageView.tsx: the message list.  An element is *)
(* given by what it shows and by the class that tells the three ways of     *)
(* showing a message apart.                                                 *)

FiveMinutes == 5 * 60 * 1000

\* Array.prototype.findIndex with msg => msg.id === id: counted from 0, -1 if none
findIndex(msgs, id) ==
    IF \E i \in 1..Len(msgs) : msgs[i].id = id
    THEN (CHOOSE i \in 1..Len(msgs) :
              /\ msgs[i].id = id
              /\ \A j \in 1..(i - 1) : msgs[j].id /= id) - 1
    ELSE -1

\* a grouping that also asks for the same calendar day
shouldGroupMessage_SameDay(currentMessage, previousMessage) ==
    IF previousMessage = JsUndefined THEN FALSE
    ELSE LET timeDiff == currentMessage.timestamp - previousMessage.timestamp
         IN  /\ currentMessage.userId = previousMessage.userId
             /\ currentMessage.type = "text"
             /\ previousMessage.type = "text"
             /\ timeDiff < FiveMinutes
             /\ isSameDay(currentMessage.timestamp, previousMessage.timestamp)

shouldGroupMessage(currentMessage, previousMessage) ==
    IF previousMessage = JsUndefined THEN FALSE
    ELSE LET timeDiff == currentMessage.timestamp - previousMessage.timestamp
         IN  /\ currentMessage.userId = previousMessage.userId
             /\ currentMessage.type = "text"
             /\ previousMessage.type = "text"
             /\ timeDiff < FiveMinutes

Element(kind, className, item) == [kind |-> kind, className |-> className, item |-> item]

renderDateSeparator(separator) == Element("date-separator", "", separator)

\* a system message is centred; a grouped message has no avatar, no name
renderMessage(message, isGrouped) ==
    IF message.type = "system" THEN Element("message", "system-message", message)
    ELSE IF isGrouped THEN Element("message", "grouped-message", message)
    ELSE Element("message", "", message)

\* a message is looked up by its identifier in the channel's list to find the
\* message before it
renderMessageItem(item, msgs) ==
    IF "type" \in DOMAIN item /\ item.type = "date-separator"
    THEN renderDateSeparator(item)
    ELSE LET messageIndex == findIndex(msgs, item.id)
             previousMessage == IF messageIndex > 0 THEN msgs[messageIndex]
                                ELSE JsUndefined
             isGrouped == shouldGroupMessage(item, previousMessage)
         IN  renderMessage(item, isGrouped)

\* the children of the message list, for a channel that has messages
MessageList(msgs, clock) ==
    LET groupedMessages == groupMessagesByDate(msgs, clock)
    IN  [index \in 1..Len(groupedMessages) |->
             renderMessageItem(groupedMessages[index], msgs)]

\* two minutes before a midnight; two, six and seven minutes after it
ViewTimes == {0 - 2 * MsPerMinute, 2 * MsPerMinute, 6 * MsPerMinute, 7 * MsPerMinute}

ViewUserIds == {"user-alice", "user-bob"}

\* a message as addMessage makes it at time t with the random suffix r
Sent(t, userId, type, r) ==
    Message(generateId(t, r), "general", userId, Content(0, 1, 0), t, type, <<>>)

\* the random suffixes of the identifiers: equal ones within a millisecond
\* give equal identifiers
ViewSuffixes == {1, 2}

\* the channel's list gets one more message, sent no earlier than its last one
channelListGrows ==
    /\ last.op \in {"create", "channelListGrows"}
    /\ Len(arg) < MaxView
    /\ \E t \in ViewTimes, userId \in ViewUserIds, type \in InputTypes,
          r \in ViewSuffixes :
          /\ (IF arg = <<>> THEN TRUE ELSE arg[Len(arg)].timestamp <= t)
          /\ arg' = Append(arg, Sent(t, userId, type, r))
    /\ last' = Did("channelListGrows")
    /\ UNCHANGED <<storeVars, routeVars, componentVars, ls, lsMode, now, producedIds, pc, ret,
                   debounceVars, retryVars>>

callMessageList ==
    /\ last.op \in {"create", "channelListGrows"}
    /\ ret' = MessageList(arg, now)
    /\ last' = Did("MessageList")
    /\ UNCHANGED <<storeVars, routeVars, componentVars, ls, lsMode, now, producedIds, pc, arg,
                   debounceVars, retryVars>>

InitView == Fresh /\ UtilIdle

NextView == channelListGrows \/ callMessageList

SpecView == InitView /\ [][NextView]_vars

----------------------------------------------------------------------------
(* components/Sidebar/Sidebar.tsx: the search box.  A key goes to the        *)
(* element that has the focus; the effect that copies the store's query to   *)
(* the box runs with the render that follows a change of the query.          *)

SEARCH_DELAY == 300

Min(a, b) == IF a < b THEN a ELSE b

Max(a, b) == IF a > b THEN a ELSE b

SearchInput == Target("search-input", "")

ChannelItem(id) == Target("channel-item", id)

KeyboardEvent(key, code, ctrlKey, metaKey) ==
    [key |-> key, code |-> code, ctrlKey |-> ctrlKey, metaKey |-> metaKey]

\* a key pressed on its own
Pressed(key) == KeyboardEvent(key, key, FALSE, FALSE)

CtrlK == KeyboardEvent("k", "KeyK", TRUE, FALSE)

\* the keys a browser reports, and the names older browsers gave the arrows
KeyboardEvents ==
    {Pressed("ArrowDown"), Pressed("ArrowUp"), Pressed("Enter"), Pressed("Escape"),
     Pressed("Down"), Pressed("Up"), CtrlK}

SEARCH_SHORTCUTS ==
    [CLEAR |-> "Escape", FOCUS |-> "KeyK", NAVIGATE_DOWN |-> "ArrowDown",
     NAVIGATE_UP |-> "ArrowUp", SELECT |-> "Enter"]

\* String.prototype.replace with a string pattern: the first occurrence
replace(s, searchValue, replaceValue) ==
    LET n == Len(searchValue)
        found == {i \in 1..(Len(s) - n + 1) : SubSeq(s, i, i + n - 1) = searchValue}
    IN  IF found = {} THEN s
        ELSE LET i == CHOOSE j \in found : \A k \in found : j <= k
             IN  SubSeq(s, 1, i - 1) \o replaceValue \o SubSeq(s, i + n, Len(s))

isSearchShortcut(event, shortcut) ==
    LET key == SEARCH_SHORTCUTS[shortcut]
    IN  CASE shortcut = "CLEAR" -> event.key = key
          [] shortcut = "FOCUS" -> (event.ctrlKey \/ event.metaKey) /\ event.code = key
          [] shortcut \in {"NAVIGATE_DOWN", "NAVIGATE_UP", "SELECT"} ->
                 event.key = replace(key, "Arrow", "")
          [] OTHER -> FALSE

\* the channel items of the list, as the sidebar renders them
filteredChannels == getFilteredChannels(channels, searchQuery)

\* what the user did to the search box: typed, or cleared it
UserEvents == {i \in 1..Len(events) : events[i].kind \in {"call", "clearSearch"}}

\* the element that has the focus once the list shows the channels chs: a
\* channel item that is gone leaves the focus to the body
FocusAmong(chs) ==
    IF sidebar.activeElement.testid = "channel-item"
       /\ \A i \in 1..Len(chs) : chs[i].id /= sidebar.activeElement.id
    THEN Body ELSE sidebar.activeElement

\* nothing but the record of the event
Ignored(op) ==
    /\ last' = Did(op)
    /\ UNCHANGED <<storeVars, ls, lsMode, now, producedIds, pc, sidebar, location>>

handleChannelClick(channelId) ==
    /\ setActiveChannel(channelId)
    /\ location' = Location(ChannelPath, channelId)

handleChannelKeyDown(event, channelId) ==
    IF event.key = "Enter" \/ event.key = " "
    THEN handleChannelClick(channelId) /\ UNCHANGED sidebar
    ELSE Ignored("handleChannelKeyDown")

clearSearch ==
    /\ setSearchQuery("")
    /\ sidebar' = Sidebar("", -1, SearchInput)
    /\ events' = Append(events, Event("clearSearch", ""))
    /\ UNCHANGED <<location, delay, timeoutId, timers>>

handleSearchKeyDown(event) ==
    LET selected == sidebar.selectedResultIndex
        listed == filteredChannels
    IN  IF isSearchShortcut(event, "CLEAR")
        THEN Cardinality(UserEvents) < MaxCalls /\ clearSearch
        ELSE /\ UNCHANGED debounceVars
             /\ IF isSearchShortcut(event, "NAVIGATE_DOWN")
                THEN LET nextIndex == Min(selected + 1, Len(listed) - 1)
                     IN  /\ sidebar' =
                                [sidebar EXCEPT
                                    !.selectedResultIndex = nextIndex,
                                    !.activeElement =
                                        IF nextIndex >= 0
                                        THEN ChannelItem(listed[nextIndex + 1].id)
                                        ELSE @]
                         /\ last' = Did("handleSearchKeyDown")
                         /\ UNCHANGED <<storeVars, ls, lsMode, now, producedIds, pc,
                                        location>>
                ELSE IF isSearchShortcut(event, "NAVIGATE_UP")
                THEN LET prevIndex == Max(selected - 1, -1)
                     IN  /\ sidebar' =
                                [sidebar EXCEPT
                                    !.selectedResultIndex = prevIndex,
                                    !.activeElement =
                                        IF prevIndex = -1 THEN SearchInput
                                        ELSE IF prevIndex < Len(listed)
                                        THEN ChannelItem(listed[prevIndex + 1].id)
                                        ELSE @]
                         /\ last' = Did("handleSearchKeyDown")
                         /\ UNCHANGED <<storeVars, ls, lsMode, now, producedIds, pc,
                                        location>>
                ELSE IF isSearchShortcut(event, "SELECT") /\ selected >= 0
                        /\ selected < Len(listed)
                THEN /\ handleChannelClick(listed[selected + 1].id)
                     /\ UNCHANGED sidebar
                ELSE Ignored("handleSearchKeyDown")

\* a key is pressed: the handler of the element that has the focus, and the
\* handler the sidebar has put on the document
keydown(event) ==
    /\ Ready
    /\ IF isSearchShortcut(event, "FOCUS")
       THEN /\ sidebar' = [sidebar EXCEPT !.activeElement = SearchInput]
            /\ last' = Did("handleGlobalKeyDown")
            /\ UNCHANGED <<storeVars, ls, lsMode, now, producedIds, pc, location,
                           debounceVars>>
       ELSE IF sidebar.activeElement = SearchInput
       THEN handleSearchKeyDown(event)
       ELSE IF sidebar.activeElement.testid = "channel-item"
       THEN handleChannelKeyDown(event, sidebar.activeElement.id)
                /\ UNCHANGED debounceVars
       ELSE Ignored("keydown") /\ UNCHANGED debounceVars
    /\ UNCHANGED <<callVars, retryVars, rendered, boundary, composer>>

\* the user types: the box holds value
handleSearchChange(value) ==
    /\ Ready
    /\ sidebar.activeElement = SearchInput
    /\ Cardinality(UserEvents) < MaxCalls
    /\ sidebar' = [sidebar EXCEPT !.localSearchQuery = value,
                                  !.selectedResultIndex = -1]
    /\ LET cleared == IF timeoutId /= 0 THEN clearTimeout(timers, timeoutId) ELSE timers
           s == setTimeout(cleared, value, delay)
       IN  /\ timers' = s.timers
           /\ timeoutId' = s.id
    /\ events' = Append(events, Event("call", value))
    /\ last' = Did("handleSearchChange")
    /\ UNCHANGED <<storeVars, ls, lsMode, now, producedIds, pc, callVars, retryVars,
                   routeVars, delay, boundary, composer>>

\* the button in the box, there while the box holds text
clickClearSearch ==
    /\ Ready
    /\ sidebar.localSearchQuery /= ""
    /\ Cardinality(UserEvents) < MaxCalls
    /\ clearSearch
    /\ UNCHANGED <<callVars, retryVars, rendered, boundary, composer>>

\* the timer of the debounced search fires: setSearchQuery(query), and the
\* effect copies a query that has changed to the box
debouncedSearchTimeout ==
    /\ \E t \in timers :
          /\ t.due <= now
          /\ timers' = timers \ {t}
          /\ events' = Append(events, Event("callback", t.args))
          /\ setSearchQuery(t.args)
          /\ sidebar' =
                 [sidebar EXCEPT
                     !.localSearchQuery = IF t.args /= searchQuery THEN t.args ELSE @,
                     !.activeElement =
                         FocusAmong(getFilteredChannels(channels, t.args))]
    /\ UNCHANGED <<callVars, retryVars, routeVars, delay, timeoutId, boundary, composer>>

\* nothing happens until the timer is due
elapseUntilDue ==
    /\ timers /= {}
    /\ \A t \in timers : t.due > now
    /\ now' = CHOOSE due \in {t.due : t \in timers} : \A t \in timers : due <= t.due
    /\ last' = Did("elapseUntilDue")
    /\ UNCHANGED <<storeVars, routeVars, componentVars, ls, lsMode, producedIds, pc,
                   callVars, debounceVars, retryVars>>

SearchInputs == {"tech"}

InitSidebar ==
    /\ Fresh /\ NoCall /\ NoRetry /\ NoRoute /\ NoComponents
    /\ delay = SEARCH_DELAY
    /\ timeoutId = 0 /\ timers = {} /\ events = <<>>

\* The sidebar over a loaded store: keys, typing, clearing, and quiet periods.
NextSidebar ==
    \/ initializeStore /\ pc /= "ready" /\ UNCHANGED utilVars
    \/ loadMockData /\ pc /= "ready" /\ UNCHANGED utilVars
    \/ \E event \in KeyboardEvents : keydown(event)
    \/ \E value \in SearchInputs : handleSearchChange(value)
    \/ clickClearSearch
    \/ debouncedSearchTimeout
    \/ elapseUntilDue

SpecSidebar == InitSidebar /\ [][NextSidebar]_vars

----------------------------------------------------------------------------
(* components/ErrorBoundary/ErrorBoundary.tsx: the error boundary *)

maxRetries == 3

ThrownErrors ==
    {Error("Error", "Temporary failure"), Error("TypeError", "Failed to fetch"),
     Error("ValidationError", "Invalid input")}

\* the enableRetry prop: true, false or not given
EnableRetryProps == {JsBool(TRUE), JsBool(FALSE), JsUndefined}

getDerivedStateFromError(err) == [hasError |-> TRUE, error |-> err]

getErrorSeverity(err) ==
    IF isNetworkError(err) THEN "MEDIUM"
    ELSE IF isValidationError(err) THEN "LOW"
    ELSE "HIGH"

\* this.props.enableRetry !== false && this.state.retryCount < this.maxRetries
canRetry(b) == b.enableRetry /= JsBool(FALSE) /\ b.retryCount < maxRetries

\* what render returns: the children, the custom fallback, or the boundary's own
\* error page with its retry indicator and its retry button
render(b) ==
    IF b.hasError
    THEN IF b.fallback
         THEN [shows |-> "fallback", retryAttempt |-> 0, retryButton |-> FALSE]
         ELSE [shows |-> "error-boundary",
               retryAttempt |-> IF b.retryCount > 0 THEN b.retryCount ELSE 0,
               retryButton |-> canRetry(b)]
    ELSE [shows |-> "children", retryAttempt |-> 0, retryButton |-> FALSE]

\* a child throws while it renders: getDerivedStateFromError, then
\* componentDidCatch, which logs and keeps the component stack
componentDidCatch(err) ==
    /\ render(boundary).shows = "children"
    /\ LET derived == getDerivedStateFromError(err)
       IN  boundary' = [boundary EXCEPT !.hasError = derived.hasError,
                                        !.error = derived.error,
                                        !.errorInfo = JsStr("componentStack")]
    /\ events' = Append(events, Event("logError",
                                      <<getErrorSeverity(err), boundary.retryCount>>))
    /\ last' = Did("componentDidCatch")
    /\ UNCHANGED <<storeVars, routeVars, sidebar, composer, ls, lsMode, now, producedIds,
                   pc, callVars, delay, timeoutId, timers, retryVars>>

\* a handleRetry that counts without a limit
handleRetry_Unlimited ==
    /\ boundary' = [boundary EXCEPT !.hasError = FALSE, !.error = NoError,
                                    !.errorInfo = JsUndefined,
                                    !.retryCount = boundary.retryCount + 1]
    /\ last' = Did("handleRetry")
    /\ UNCHANGED <<storeVars, routeVars, sidebar, composer, ls, lsMode, now, producedIds,
                   pc, callVars, debounceVars, retryVars>>

handleRetry ==
    /\ boundary' = IF boundary.retryCount < maxRetries
                   THEN [boundary EXCEPT !.hasError = FALSE, !.error = NoError,
                                         !.errorInfo = JsUndefined,
                                         !.retryCount = boundary.retryCount + 1]
                   ELSE boundary
    /\ last' = Did("handleRetry")
    /\ UNCHANGED <<storeVars, routeVars, sidebar, composer, ls, lsMode, now, producedIds,
                   pc, callVars, debounceVars, retryVars>>

\* a click on the retry button, which is there only when render offers it
clickRetryButton == render(boundary).retryButton /\ handleRetry

\* a call of the instance's handleRetry from outside the rendered page
callHandleRetry == ~render(boundary).retryButton /\ handleRetry

InitBoundary ==
    /\ Fresh /\ NoCall /\ NoDebounce /\ NoRetry /\ NoRoute /\ NoSidebar /\ NoComposer
    /\ \E enableRetry \in EnableRetryProps, fallback \in BOOLEAN :
           boundary = ErrorBoundary(FALSE, NoError, JsUndefined, 0, enableRetry, fallback)

NextBoundary ==
    \/ \E err \in ThrownErrors : componentDidCatch(err)
    \/ clickRetryButton
    \/ callHandleRetry

SpecBoundary == InitBoundary /\ [][NextBoundary]_vars

----------------------------------------------------------------------------
(* components/MessageView/MessageView.tsx: the message composer *)

MAX_CHARACTERS == 2000

\* value.slice(0, n) of a value longer than n.  Where the cut falls inside the
\* core, what is kept ends with a character of the core or with blanks that
\* stood inside it: the longest and the shortest core that can be left.
Slices(value, n) ==
    IF value.lead >= n THEN {Content(n, 0, 0)}
    ELSE IF value.lead + value.core > n
         THEN {Content(value.lead, k, n - value.lead - k) : k \in {1, n - value.lead}}
         ELSE {Content(value.lead, value.core, n - value.lead - value.core)}

ComposerInputs == InputContents \cup {Content(MAX_CHARACTERS + 1, 1, 0)}

ComposerChannelIds == {"general", "test-channel"}

\* the parent renders the composer with another disabled prop
renderMessageComposer(disabled) ==
    /\ Ready
    /\ disabled /= composer.disabled
    /\ composer' = [composer EXCEPT !.disabled = disabled]
    /\ last' = Did("MessageComposer")
    /\ UNCHANGED <<storeVars, routeVars, sidebar, boundary, ls, lsMode, now, producedIds,
                   pc, callVars, debounceVars, retryVars>>

handleInputChange(value) ==
    /\ Ready
    /\ \E kept \in IF Length(value) <= MAX_CHARACTERS THEN {value}
                   ELSE Slices(value, MAX_CHARACTERS) :
           composer' = [composer EXCEPT !.message = kept]
    /\ last' = [Did("handleInputChange") EXCEPT !.content = value]
    /\ UNCHANGED <<storeVars, routeVars, sidebar, boundary, ls, lsMode, now, producedIds,
                   pc, callVars, debounceVars, retryVars>>

\* a sendMessage that sends what the input holds
sendMessage_Untrimmed(r) ==
    /\ Ready
    /\ LET trimmedMessage == Trim(composer.message)
       IN  IF Length(trimmedMessage) = 0 \/ composer.disabled
           THEN /\ last' = Did("sendMessage")
                /\ UNCHANGED <<storeVars, ls, lsMode, now, producedIds, pc, composer>>
           ELSE /\ addMessage(composer.channelId, "current-user", composer.message,
                              "text", r)
                /\ composer' = [composer EXCEPT !.message = NoContent]
    /\ UNCHANGED <<callVars, debounceVars, retryVars, routeVars, sidebar, boundary>>

sendMessage(r) ==
    /\ Ready
    /\ LET trimmedMessage == Trim(composer.message)
       IN  IF Length(trimmedMessage) = 0 \/ composer.disabled
           THEN /\ last' = Did("sendMessage")
                /\ UNCHANGED <<storeVars, ls, lsMode, now, producedIds, pc, composer>>
           ELSE /\ addMessage(composer.channelId, "current-user", trimmedMessage,
                              "text", r)
                /\ composer' = [composer EXCEPT !.message = NoContent]
    /\ UNCHANGED <<callVars, debounceVars, retryVars, routeVars, sidebar, boundary>>

handleSubmit(r) == sendMessage(r)

\* Enter sends; Shift+Enter, and every other key, is left to the textarea
handleKeyDown(key, shiftKey, r) ==
    IF key = "Enter" /\ ~shiftKey
    THEN sendMessage(r)
    ELSE /\ Ready
         /\ last' = Did("handleKeyDown")
         /\ UNCHANGED <<storeVars, ls, lsMode, now, producedIds, pc, utilVars>>

InitComposer ==
    /\ Fresh /\ NoCall /\ NoDebounce /\ NoRetry /\ NoRoute /\ NoSidebar /\ NoBoundary
    /\ \E channelId \in ComposerChannelIds, disabled \in BOOLEAN :
           composer = MessageComposer(channelId, disabled, NoContent)

NextComposer ==
    \/ initializeStore /\ pc /= "ready" /\ UNCHANGED utilVars
    \/ loadMockData /\ pc /= "ready" /\ UNCHANGED utilVars
    \/ \E e \in InputErrors : setError(e) /\ UNCHANGED utilVars
    \/ \E disabled \in BOOLEAN : renderMessageComposer(disabled)
    \/ \E value \in ComposerInputs : handleInputChange(value)
    \/ \E r \in {1} : Len(producedIds) < MaxSent /\ handleSubmit(r)
    \/ \E key \in {"Enter", "a"}, shiftKey \in BOOLEAN, r \in {1} :
           Len(producedIds) < MaxSent /\ handleKeyDown(key, shiftKey, r)

SpecComposer == InitComposer /\ [][NextComposer]_vars

----------------------------------------------------------------------------
(* Properties of the message path *)

\* the message list of a channel identifier in a messages map, [] if it has none
ListOf(map, c) == IF c \in DOMAIN map THEN map[c] ELSE <<>>

IsPrefix(a, b) == Len(a) <= Len(b) /\ \A i \in 1..Len(a) : b[i] = a[i]

\* C1: addMessage accepts a content string exactly when the length of the
\* trimmed string is at least 1 and at most 2000, whatever its untrimmed length.
C1_AcceptsIffTrimmedLengthInRange ==
    last.op = "addMessage" =>
        (last.accepted <=>
            (0 < last.content.core /\ last.content.core <= 2000))

\* C2: a rejected addMessage leaves the whole messages map as it was, creates
\* no list for the target channel, and sets the error field to the fixed message.
C2_RejectLeavesMessages ==
    [][(last'.op = "addMessage" /\ ~last'.accepted) =>
            /\ DOMAIN messages' = DOMAIN messages
            /\ \A c \in DOMAIN messages : messages'[c] = messages[c]
            /\ error'.type = "string"
            /\ error' = JsStr("Message content is invalid")]_vars

\* a rejected send to a channel identifier that has no list, after an accepted one
C2_Witness ==
    /\ last.op = "addMessage"
    /\ ~last.accepted
    /\ last.id \notin DOMAIN messages
    /\ Len(producedIds) > 0
    /\ error = JsStr("Message content is invalid")

\* C3: an accepted addMessage appends exactly one message at the end of the
\* target channel's list, creating the list if there was none, keeps every
\* earlier message in place, stores the trimmed content and the channelId
\* argument, and clears the error field.
C3_AcceptAppendsOne ==
    [][(last'.op = "addMessage" /\ last'.accepted) =>
            LET ch == last'.id
                old == ListOf(messages, ch)
                new == ListOf(messages', ch)
            IN  /\ DOMAIN messages' = DOMAIN messages \cup {ch}
                /\ Len(new) = Len(old) + 1
                /\ \A i \in 1..Len(old) : new[i] = old[i]
                /\ new[Len(new)].content.lead = 0
                /\ new[Len(new)].content.trail = 0
                /\ new[Len(new)].content.core = last'.content.core
                /\ new[Len(new)].channelId = ch
                /\ error' = JsNull]_vars

\* a padded content accepted for a channel identifier that is not loaded and
\* already had a list
C3_Witness ==
    /\ last.op = "addMessage"
    /\ last.accepted
    /\ last.content.lead > 0
    /\ last.id \notin {channels[i].id : i \in 1..Len(channels)}
    /\ Len(channels) > 0
    /\ Len(ListOf(messages, last.id)) = 2
    /\ error = JsNull

\* C4: no two identifiers produced by addMessage in a session are equal.
C4_IdentifiersUnique ==
    \A i, j \in 1..Len(producedIds) :
        i /= j => producedIds[i] /= producedIds[j]

----------------------------------------------------------------------------
(* Properties of the whole store *)

C5_Actions == {"addMessage", "setActiveChannel", "toggleTheme", "toggleSidebar",
               "setSearchQuery", "clearError", "initializeStore", "loadMockData"}

\* C5: over the actions addMessage, setActiveChannel, toggleTheme,
\* toggleSidebar, setSearchQuery, clearError, initializeStore and loadMockData,
\* every channel's message list only grows at its end: the list before a step
\* is a prefix of the list after it.
C5_MessagesAppendOnly ==
    [][last'.op \in C5_Actions =>
            \A c \in DOMAIN messages :
                /\ c \in DOMAIN messages'
                /\ IsPrefix(messages[c], messages'[c])]_vars

\* C6: after loadMockData the loading flag is false and the active channel is
\* the persisted last-active channel if that identifier is one of the loaded
\* channels, otherwise the first loaded channel, otherwise none.
C6_ActiveChannelAfterLoad ==
    (last.op = "loadMockData" /\ ~last.threw) =>
        LET persisted == Get(getSettings(ls, lsMode).ret, "lastActiveChannel")
            loaded == {channels[i].id : i \in 1..Len(channels)}
        IN  /\ isLoading = FALSE
            /\ activeChannelId =
                 IF persisted.type = "string" /\ persisted.str \in loaded
                 THEN persisted
                 ELSE IF Len(channels) > 0 THEN JsStr(channels[1].id)
                 ELSE JsNull

\* the theme that follows t in the cycle light -> dark -> system -> light
ThemeAfter(t) ==
    CASE t = "light" -> "dark"
      [] t = "dark" -> "system"
      [] t = "system" -> "light"

\* a store on which the adapter's write-and-delete probe and its writes succeed
Writable(mode) == ~mode.setItem /\ ~mode.removeItem

\* C7: toggleTheme takes light to dark, dark to system and system to light, the
\* theme is never anything else, and with a writable store the value under the
\* theme key is the new theme after each call.
C7_ThemeCycle ==
    [][last'.op = "toggleTheme" =>
            /\ theme \in {"light", "dark", "system"}
            /\ theme' = ThemeAfter(theme)
            /\ ThemeAfter(ThemeAfter(theme')) = theme
            /\ Writable(lsMode) => ls'[THEME] = Raw(theme')]_vars

\* the third toggle of a round: back at light, and light is what is stored
C7_Witness ==
    /\ last.op = "toggleTheme"
    /\ lsMode = Working
    /\ theme = "light"
    /\ ls[THEME] = Raw("light")

\* C8: when setItem throws, toggleTheme throws nothing to its caller and the
\* theme in memory still moves to the next value of the cycle.
C8_ToggleThemeSurvivesWriteFailure ==
    [][(last'.op = "toggleTheme" /\ lsMode.setItem) =>
            /\ ~last'.threw
            /\ theme' /= theme
            /\ theme' = ThemeAfter(theme)]_vars

\* two toggles on a store whose setItem throws: nothing stored, theme at system
C8_Witness ==
    /\ last.op = "toggleTheme"
    /\ lsMode.setItem
    /\ ~last.threw
    /\ theme = "system"
    /\ ls[THEME] /= Raw("system")

\* the settings object the store holds, {} if it holds none that parses
StoredSettings(store) ==
    IF store[SETTINGS].kind = "object" THEN JSONparse(store[SETTINGS]).obj
    ELSE EmptyObject

\* C10: with a working store the settings written by toggleSidebar and by
\* setActiveChannel are the previously stored settings with the members of the
\* partial object set: every key of the partial has its new value, every other
\* stored key keeps its value; so toggleSidebar leaves the persisted
\* lastActiveChannel alone and setActiveChannel the persisted sidebarOpen.
C10_SettingsMerge ==
    [][(last'.op \in {"toggleSidebar", "setActiveChannel"} /\ lsMode = Working) =>
            LET old == StoredSettings(ls)
                new == StoredSettings(ls')
                partial == last'.partial
            IN  /\ ls'[SETTINGS].kind = "object"
                /\ Keys(partial) =
                     IF last'.op = "toggleSidebar" THEN {"sidebarOpen"}
                     ELSE {"lastActiveChannel"}
                /\ Keys(new) = Keys(old) \cup Keys(partial)
                /\ \A k \in Keys(partial) : Get(new, k) = Get(partial, k)
                /\ \A k \in Keys(old) \ Keys(partial) : Get(new, k) = Get(old, k)
                /\ last'.op = "toggleSidebar" =>
                     Get(new, "lastActiveChannel") = Get(old, "lastActiveChannel")
                /\ last'.op = "setActiveChannel" =>
                     Get(new, "sidebarOpen") = Get(old, "sidebarOpen")]_vars

\* a toggleSidebar that wrote sidebarOpen next to a lastActiveChannel stored by
\* an earlier setActiveChannel
C10_Witness ==
    /\ last.op = "toggleSidebar"
    /\ lsMode = Working
    /\ Get(StoredSettings(ls), "lastActiveChannel") = JsStr("non-existent")
    /\ Get(StoredSettings(ls), "sidebarOpen") = JsBool(TRUE)
    /\ sidebarOpen = JsBool(TRUE)

----------------------------------------------------------------------------
(* Properties of the persistence adapter *)

\* C9: when getItem, setItem and removeItem all throw, no method of the adapter
\* lets an exception out, getTheme returns light and getSettings returns {}.
C9_AdapterContainsFailures ==
    lsMode = AllThrow =>
        /\ ~last.threw
        /\ last.op = "getTheme" => last.retTheme = "light"
        /\ last.op = "getSettings" => last.retSettings = EmptyObject

\* getSettings on a store that holds settings and throws on every call
C9_Witness ==
    /\ lsMode = AllThrow
    /\ last.op = "getSettings"
    /\ ls[SETTINGS].kind = "object"
    /\ ls[THEME] = Raw("dark")

----------------------------------------------------------------------------
(* Properties of initialisation and of the active channel *)

\* the store gives the adapter a valid theme name
StoredThemeValid ==
    /\ Writable(lsMode) /\ ~lsMode.getItem
    /\ ls[THEME].kind = "raw" /\ ls[THEME].text \in Themes

\* the store gives the adapter a settings object whose sidebarOpen is a boolean
StoredSidebarOpenBoolean ==
    /\ Writable(lsMode) /\ ~lsMode.getItem
    /\ Get(StoredSettings(ls), "sidebarOpen").type = "boolean"

\* C11: initializeStore never throws and, whatever the store holds, leaves
\* theme one of light, dark, system and sidebarOpen a boolean: a missing,
\* unreadable or malformed theme gives light, and missing, unreadable or
\* malformed settings (invalid JSON, or a sidebarOpen that is not a boolean)
\* give sidebarOpen = true.
C11_InitializeStoreTotal ==
    [][last'.op = "initializeStore" =>
            /\ ~last'.threw
            /\ theme' \in Themes
            /\ sidebarOpen'.type = "boolean"
            /\ ~StoredThemeValid => theme' = "light"
            /\ ~StoredSidebarOpenBoolean => sidebarOpen' = JsBool(TRUE)]_vars

\* C19: setActiveChannel(id) sets activeChannelId to id for every id, loaded or
\* not, with a writable store leaves the persisted settings with
\* lastActiveChannel = id, and changes no other field of the state.
C19_SetActiveChannelFrame ==
    [][last'.op = "setActiveChannel" =>
            /\ activeChannelId' = JsStr(last'.id)
            /\ Writable(lsMode) =>
                 Get(StoredSettings(ls'), "lastActiveChannel") = JsStr(last'.id)
            /\ UNCHANGED <<channels, messages, theme, sidebarOpen, searchQuery,
                           isLoading, error>>]_vars

\* the identifier of no loaded channel became the active and the persisted one
C19_Witness ==
    /\ last.op = "setActiveChannel"
    /\ last.id = "non-existent"
    /\ Len(channels) > 0
    /\ \A i \in 1..Len(channels) : channels[i].id /= "non-existent"
    /\ activeChannelId = JsStr("non-existent")
    /\ Writable(lsMode)
    /\ Get(StoredSettings(ls), "lastActiveChannel") = JsStr("non-existent")
    /\ Get(StoredSettings(ls), "sidebarOpen") = JsBool(FALSE)

----------------------------------------------------------------------------
(* Properties of the channel filter *)

\* two characters that are the same letter, whatever their case
SameLetter(a, b) ==
    \/ a = b
    \/ \E i \in 1..Len(UpperCase) :
          {a, b} = {CharAt(UpperCase, i), CharAt(LowerCase, i)}

\* text has q at some place, case ignored
ContainsIgnoringCase(text, q) ==
    \E i \in 1..(Len(text) - Len(q) + 1) :
        \A j \in 1..Len(q) : SameLetter(CharAt(text, i + j - 1), CharAt(q, j))

IsBlank(s) == \A i \in 1..Len(s) : CharAt(s, i) \in WhiteSpace

MatchesQuery(channel) ==
    \/ ContainsIgnoringCase(channel.name, searchQuery)
    \/ ContainsIgnoringCase(channel.description, searchQuery)

\* C12: getFilteredChannels returns all channels in their order when the query
\* is empty or blank; otherwise exactly the channels whose name or description
\* contains the query, as stored and not trimmed, as a substring with case
\* ignored, in their original relative order.
C12_FilteredChannels ==
    [][last'.op = "getFilteredChannels" =>
            IF IsBlank(searchQuery) THEN ret' = channels
            ELSE ret' = SelectSeq(channels, MatchesQuery)]_vars

\* a padded query found nothing where the trimmed one would have found a channel
C12_Witness ==
    /\ last.op = "getFilteredChannels"
    /\ searchQuery = " tech"
    /\ Len(channels) = 5
    /\ ret = <<>>
    /\ \E i \in 1..Len(channels) : ContainsIgnoringCase(channels[i].name, "tech")

----------------------------------------------------------------------------
(* Properties of the date separators *)

IsSeparator(item) == item.type = "date-separator"

IsMessage(item) == ~IsSeparator(item)

\* the adjacent pairs of a message list that lie on different days
DayChanges(msgs) ==
    {i \in 1..(Len(msgs) - 1) :
        msgs[i].timestamp \div MsPerDay /= msgs[i + 1].timestamp \div MsPerDay}

\* the position in the result of the i-th message of the input
PlaceOf(items, i) ==
    CHOOSE k \in 1..Len(items) :
        /\ IsMessage(items[k])
        /\ Cardinality({j \in 1..k : IsMessage(items[j])}) = i

----------------------------------------------------------------------------
(* Properties of the debounced function *)

\* the last call of the debounced function before place i of the events, 0 if none
CallBefore(i) ==
    IF \E c \in Calls : c < i THEN CHOOSE c \in Calls : c < i /\ \A d \in Calls : d < i => d <= c
    ELSE 0

\* the callback invocations after place c of the events
CallbacksAfter(c) == {i \in (c + 1)..Len(events) : events[i].kind = "callback"}

\* C14: with a delay d > 0 the callback is never invoked while less than d has
\* elapsed since the most recent call; every call restarts the timer; and after
\* a burst of calls followed by a quiet period of d the callback has been
\* invoked exactly once, with the arguments of the last call.
C14_Debounce ==
    delay > 0 =>
        LET lastCall == CallBefore(Len(events) + 1)
        IN  /\ \A i \in 1..Len(events) : events[i].kind = "callback" =>
                   /\ CallBefore(i) > 0
                   /\ events[i].at - events[CallBefore(i)].at >= delay
                   /\ events[i].args = events[CallBefore(i)].args
                   /\ {j \in CallbacksAfter(CallBefore(i)) : CallBefore(j) = CallBefore(i)} = {i}
            /\ lastCall > 0 =>
                   /\ timers \subseteq {[id |-> timeoutId, due |-> events[lastCall].at + delay,
                                         args |-> events[lastCall].args]}
                   /\ timers = {} <=> CallbacksAfter(lastCall) /= {}
                   /\ now > events[lastCall].at + delay =>
                          Cardinality(CallbacksAfter(lastCall)) = 1

\* three calls in a burst, the last one later than the first, then the one callback
C14_Witness ==
    /\ delay > 0
    /\ Len(events) = 4
    /\ events[1].kind = "call" /\ events[1].args = "test1" /\ events[1].at = 0
    /\ events[2].kind = "call" /\ events[2].args = "test2"
    /\ events[3].kind = "call" /\ events[3].args = "test1" /\ events[3].at = 1
    /\ events[4].kind = "callback" /\ events[4].args = "test1" /\ events[4].at = 1 + delay
    /\ now > events[4].at

\* C15: with a delay of 0 the callback is invoked synchronously, during the call
\* of the debounced function itself.
C15_ZeroDelayInvokesDuringCall ==
    delay = 0 =>
        \A i \in Calls :
            /\ i < Len(events)
            /\ events[i + 1].kind = "callback"
            /\ events[i + 1].args = events[i].args

----------------------------------------------------------------------------
(* Properties of the error classification and of the retry handler *)

RetryablePhrases == {"temporary", "rate limit", "service unavailable", "internal server error"}

\* C18: isRetryableError(e) is false whenever isValidationError(e), even for a
\* network error; otherwise true whenever isNetworkError(e); otherwise true
\* exactly when the message has temporary, rate limit, service unavailable or
\* internal server error in it, case ignored; otherwise false.
C18_IsRetryableError ==
    last.op = "isRetryableError" =>
        /\ isValidationError(arg) => ret = FALSE
        /\ (~isValidationError(arg) /\ isNetworkError(arg)) => ret = TRUE
        /\ (~isValidationError(arg) /\ ~isNetworkError(arg)) =>
               (ret <=> \E p \in RetryablePhrases : ContainsIgnoringCase(arg.message, p))

\* a network error by its name and its message that is a validation error too
C18_Witness ==
    /\ last.op = "isRetryableError"
    /\ arg = Error("TypeError", "Invalid network format")
    /\ isNetworkError(arg) /\ isValidationError(arg)
    /\ ret = FALSE

Invocations == {i \in 1..Len(trace) : trace[i].kind = "operation"}

Settled == handler \in {"resolved", "rejected"}

\* the handler has settled, in one of the three ways
C16_Outcome ==
    LET final == trace[Len(trace)]
    IN  /\ Cardinality(Invocations) <= retryConfig.maxRetries + 1
        /\ \A i \in 1..Len(trace) : trace[i].kind = "fulfilled" =>
               i = Len(trace) /\ handler = "resolved"
        /\ handler = "resolved" => final.kind = "fulfilled"
        /\ handler = "rejected" =>
               /\ final.kind = "rejected" /\ final.error = lastError
               /\ \/ ~isRetryableError(lastError)
                  \/ Cardinality(Invocations) = retryConfig.maxRetries + 1
        /\ handler = "timer" =>
               /\ isRetryableError(lastError)
               /\ Cardinality(Invocations) <= retryConfig.maxRetries

C17_PersistentFailureRetried ==
    (/\ handler = "rejected"
     /\ \A i \in 1..Len(trace) : trace[i].kind = "rejected" =>
            trace[i].error = Error("Error", "Persistent failure")) =>
        Cardinality(Invocations) = retryConfig.maxRetries + 1

----------------------------------------------------------------------------
(* Properties of the channel route *)

Loaded(channelId) == \E i \in 1..Len(channels) : channels[i].id = channelId

\* C20: the channel route calls setActiveChannel(channelId) only when loading
\* is finished and channelId is the identifier of a loaded channel; for a route
\* whose channelId matches no loaded channel, setActiveChannel is never called
\* and, loading being finished, the channel-not-found page is shown.
C20_RouteValidatesChannel ==
    /\ [][last'.op = "setActiveChannel" =>
             /\ ~isLoading
             /\ location.path = ChannelPath
             /\ last'.id = location.channelId
             /\ Loaded(location.channelId)]_vars
    /\ []((/\ Ready /\ ~Stale /\ ~isLoading
           /\ location.path = ChannelPath
           /\ ~Loaded(location.channelId)) =>
              rendered.element = "NotFound type=channel")
    /\ [][(last'.op = "navigate") =>
             /\ ~Loaded(location.channelId)
             /\ location'.path = NotFoundChannelPath
             /\ UNCHANGED <<storeVars, ls>>]_vars

\* the route set tech active, then an unknown channel was opened and the route
\* went to the channel-not-found page without touching the active channel
C20_Witness ==
    /\ last.op = "navigate"
    /\ location.path = NotFoundChannelPath
    /\ Len(channels) > 0
    /\ activeChannelId = JsStr("tech")
    /\ Get(StoredSettings(ls), "lastActiveChannel") = JsStr("tech")

----------------------------------------------------------------------------
(* Properties of the references from messages to channels *)

ChannelIds(chs) == {chs[i].id : i \in 1..Len(chs)}

ChannelsLoaded == channels = mockChannels

\* C21 as stated: once the channels are loaded, every key of the messages map
\* and the channelId of every stored message is the identifier of a loaded
\* channel.
C21_MessagesReferenceChannels ==
    ChannelsLoaded =>
        \A c \in DOMAIN messages :
            /\ c \in ChannelIds(channels)
            /\ \A i \in 1..Len(messages[c]) :
                   messages[c][i].channelId \in ChannelIds(channels)

\* C21 as amended: every stored message carries the key of the list that
\* holds it, and a key enters the messages map only as the identifier of a
\* loaded channel or as the identifier of an accepted addMessage, whether a
\* channel has that identifier or not.
C21_MessagesReferenceTheirList ==
    /\ [](\A c \in DOMAIN messages :
              \A i \in 1..Len(messages[c]) : messages[c][i].channelId = c)
    /\ [][\A c \in DOMAIN messages' :
              \/ c \in DOMAIN messages
              \/ c \in ChannelIds(channels')
              \/ last'.op = "addMessage" /\ last'.accepted /\ last'.id = c]_vars

\* a message is stored under an identifier that no loaded channel has
C21_Witness ==
    /\ ChannelsLoaded
    /\ last.op = "addMessage" /\ last.accepted /\ last.id = "non-existent"
    /\ "non-existent" \in DOMAIN messages
    /\ Len(messages["non-existent"]) = 1
    /\ messages["non-existent"][1].channelId = "non-existent"

----------------------------------------------------------------------------
(* Properties of the message list *)

\* the elements of the messages, in the order of the list
MessageElements == SelectSeq(ret, LAMBDA e : e.kind = "message")

Compact(e) == e.kind = "message" /\ e.className = "grouped-message"

\* the message at place j follows a text message of the same author, is a text
\* message itself, and was sent less than five minutes after it
FollowsClosely(msgs, j) ==
    /\ j > 1
    /\ msgs[j].userId = msgs[j - 1].userId
    /\ msgs[j].type = "text"
    /\ msgs[j - 1].type = "text"
    /\ msgs[j].timestamp - msgs[j - 1].timestamp < 5 * MsPerMinute

\* C22: a message is rendered compact exactly when it has a message right
\* before it in the channel's list, both have the same author, both are text
\* messages and less than five minutes lie between them; the first message of
\* a channel is never compact.
C22_CompactIffFollowsClosely ==
    last.op = "MessageList" =>
        /\ Len(MessageElements) = Len(arg)
        /\ \A j \in 1..Len(arg) :
               /\ MessageElements[j].item = arg[j]
               /\ Compact(MessageElements[j]) <=> FollowsClosely(arg, j)

\* C22 on lists whose identifiers are pairwise different
C22_CompactIffFollowsCloselyUniqueIds ==
    (\A i, j \in 1..Len(arg) : arg[i].id = arg[j].id => i = j) =>
        C22_CompactIffFollowsClosely

\* the place in the channel's list of the message shown by the element at
\* place k of the rendered list
ListPlace(k) == Cardinality({i \in 1..k : ret[i].kind = "message"})

AfterSeparator(k) == k > 1 /\ ret[k - 1].kind = "date-separator"

\* C30 as stated: a message right after a date separator is never rendered
\* compact.
C30_NoCompactAfterSeparator ==
    last.op = "MessageList" =>
        \A k \in 1..Len(ret) : AfterSeparator(k) => ~Compact(ret[k])

\* C30 as amended: a message right after a date separator is rendered compact
\* exactly when the message before it in the list is a text message of the
\* same author sent less than five minutes earlier and it is a text message
\* itself: never as the first message, but also across midnight.
C30_CompactAfterSeparator ==
    last.op = "MessageList" =>
        \A k \in 1..Len(ret) :
            AfterSeparator(k) =>
                /\ ret[k].kind = "message"
                /\ Compact(ret[k]) <=> FollowsClosely(arg, ListPlace(k))

\* two text messages of one author four minutes apart across midnight: the
\* second one is compact under the separator of its day
C30_Witness ==
    /\ last.op = "MessageList"
    /\ Len(arg) = 2
    /\ arg[1].timestamp = 0 - 2 * MsPerMinute
    /\ arg[2].timestamp = 2 * MsPerMinute
    /\ Len(ret) = 4
    /\ AfterSeparator(4)
    /\ Compact(ret[4])

----------------------------------------------------------------------------
(* Properties of the retries *)

\* the places of the trace that hold an entry of one kind
Places(kind) == {i \in 1..Len(trace) : trace[i].kind = kind}

\* the k-th retry: the operation is invoked again
IsRetry(i) == trace[i].kind = "operation" /\ trace[i].number >= 1

\* the wait before the k-th retry: the delay, times the multiplier once for
\* every retry before it
RECURSIVE WaitBefore(_)
WaitBefore(k) ==
    IF k = 1 THEN retryConfig.delay
    ELSE retryConfig.backoffMultiplier * WaitBefore(k - 1)

\* C23: before the k-th retry onRetry, if there is one, is called exactly once
\* with k and the error of the attempt that failed, and the handler then waits
\* delay * backoffMultiplier^(k-1) before it invokes the operation again;
\* onRetry is not called after the last attempt nor after an error that is not
\* retryable.
C23_OnRetryThenBackoff ==
    /\ \A i \in 1..Len(trace) :
           IsRetry(i) =>
               LET k == trace[i].number
                   failure == IF retryConfig.onRetry THEN i - 3 ELSE i - 2
               IN  /\ k <= retryConfig.maxRetries
                   /\ failure >= 1
                   /\ trace[failure].kind = "rejected"
                   /\ trace[failure].number = k - 1
                   /\ trace[i - 1] = Traced("setTimeout", NoError, WaitBefore(k))
                   /\ retryConfig.onRetry =>
                          trace[i - 2] = Traced("onRetry", trace[failure].error, k)
                   /\ Cardinality({j \in Places("onRetry") : trace[j].number = k})
                          = IF retryConfig.onRetry THEN 1 ELSE 0
    /\ \A j \in Places("onRetry") :
           /\ retryConfig.onRetry
           /\ j > 1
           /\ trace[j - 1].kind = "rejected"
           /\ trace[j - 1].number < retryConfig.maxRetries
           /\ isRetryableError(trace[j - 1].error)
           /\ trace[j] = Traced("onRetry", trace[j - 1].error, trace[j - 1].number + 1)
    /\ \A a, b \in Places("setTimeout") :
           (a < b /\ \A c \in Places("setTimeout") : ~(a < c /\ c < b)) =>
               trace[b].number = retryConfig.backoffMultiplier * trace[a].number

\* two retries with a callback and the multiplier 3, then the last attempt
\* fails: two calls of onRetry, waits of 10 and 30
C23_Witness ==
    /\ handler = "rejected"
    /\ retryConfig.onRetry
    /\ retryConfig.maxRetries = 2
    /\ retryConfig.backoffMultiplier = 3
    /\ attempt = 2
    /\ Cardinality(Places("onRetry")) = 2
    /\ Cardinality(Places("rejected")) = 3
    /\ \E a, b \in Places("setTimeout") : trace[a].number = 10 /\ trace[b].number = 30

----------------------------------------------------------------------------
(* Properties of the sidebar *)

\* C24: in the search input, the key ArrowDown moves the selected result from
\* s to min(s + 1, number of results - 1) and gives that channel item the
\* focus; Enter, with a result selected, calls setActiveChannel with the
\* identifier of that channel.
C24_ArrowDownThenEnter ==
    /\ [][(/\ keydown(Pressed("ArrowDown"))
           /\ sidebar.activeElement = SearchInput
           /\ Len(filteredChannels) > 0) =>
              LET nextIndex == Min(sidebar.selectedResultIndex + 1,
                                   Len(filteredChannels) - 1)
              IN  /\ sidebar'.selectedResultIndex = nextIndex
                  /\ sidebar'.activeElement =
                         ChannelItem(filteredChannels[nextIndex + 1].id)]_vars
    /\ [][(/\ keydown(Pressed("Enter"))
           /\ sidebar.selectedResultIndex >= 0
           /\ sidebar.selectedResultIndex < Len(filteredChannels)) =>
              LET id == filteredChannels[sidebar.selectedResultIndex + 1].id
              IN  /\ last' = [Did("setActiveChannel") EXCEPT
                                 !.id = id,
                                 !.partial = << <<"lastActiveChannel", JsStr(id)>> >>]
                  /\ activeChannelId' = JsStr(id)]_vars

\* the keys as older browsers name them do what C24 says of ArrowDown and Enter
C24_LegacyDownThenEnter ==
    /\ [][(/\ keydown(Pressed("Down"))
           /\ sidebar.activeElement = SearchInput
           /\ Len(filteredChannels) > 0) =>
              LET nextIndex == Min(sidebar.selectedResultIndex + 1,
                                   Len(filteredChannels) - 1)
              IN  /\ sidebar'.selectedResultIndex = nextIndex
                  /\ sidebar'.activeElement =
                         ChannelItem(filteredChannels[nextIndex + 1].id)]_vars

\* the last thing the user did to the search box was to clear it
Cleared ==
    /\ UserEvents /= {}
    /\ \E i \in UserEvents :
          /\ events[i].kind = "clearSearch"
          /\ \A j \in UserEvents : j <= i

\* C25: once the search is cleared the store's query stays empty until the user
\* types again; an update that was pending from typing before the clear does
\* not fire afterwards and overwrite the cleared query.
C25_ClearedQueryStaysEmpty == Cleared => searchQuery = ""

----------------------------------------------------------------------------
(* Properties of the preferences *)

\* C26: with a store that works, after initializeStore and any toggles of the
\* theme and of the sidebar, initializeStore run again leaves theme and
\* sidebarOpen as they are.
C26_PreferencesRoundTrip ==
    [][(pc = "ready" /\ last'.op = "initializeStore") =>
            /\ ~last'.threw
            /\ theme' = theme
            /\ sidebarOpen' = sidebarOpen]_vars

\* initializeStore has run again after a toggle
C26_Witness ==
    /\ pc = "ready"
    /\ last.op = "initializeStore"
    /\ theme = "system"
    /\ sidebarOpen = JsBool(FALSE)
    /\ ls[THEME] = Raw("system")

----------------------------------------------------------------------------
(* Properties of what addMessage leaves alone *)

\* C27: addMessage, accepting or rejecting, changes none of channels,
\* activeChannelId, theme, sidebarOpen, searchQuery and isLoading, changes the
\* message list of no channel but the target, and writes nothing to the
\* persistent store.
C27_AddMessageFrame ==
    [][last'.op = "addMessage" =>
            /\ channels' = channels
            /\ activeChannelId' = activeChannelId
            /\ theme' = theme
            /\ sidebarOpen' = sidebarOpen
            /\ searchQuery' = searchQuery
            /\ isLoading' = isLoading
            /\ \A c \in DOMAIN messages :
                   c /= last'.id => (c \in DOMAIN messages' /\ messages'[c] = messages[c])
            /\ \A c \in DOMAIN messages' : c /= last'.id => c \in DOMAIN messages
            /\ ls' = ls]_vars

\* an accepted addMessage in a store with other channels' lists, a changed
\* theme, an active channel and stored preferences
C27_Witness ==
    /\ last.op = "addMessage" /\ last.accepted
    /\ \E c \in DOMAIN messages : c /= last.id /\ Len(messages[c]) > 0
    /\ theme = "dark"
    /\ activeChannelId = JsStr("tech")
    /\ ls[SETTINGS] /= Absent

----------------------------------------------------------------------------
(* Properties of the error boundary *)

\* C28: the boundary's retryCount starts at 0, never decreases, goes up by
\* exactly 1 on each handleRetry that clears the error state and changes at no
\* other step, and never exceeds 3; once it is 3, handleRetry changes nothing
\* and the retry button is not offered.
C28_RetryCountBounded ==
    /\ [](/\ boundary.retryCount \in 0..3
          /\ last.op = "create" => boundary.retryCount = 0
          /\ boundary.retryCount = 3 => ~render(boundary).retryButton)
    /\ [][/\ boundary'.retryCount >= boundary.retryCount
          /\ (last'.op = "handleRetry" /\ boundary.hasError /\ ~boundary'.hasError)
                 => boundary'.retryCount = boundary.retryCount + 1
          /\ boundary'.retryCount /= boundary.retryCount
                 => (last'.op = "handleRetry" /\ ~boundary'.hasError)
          /\ (last'.op = "handleRetry" /\ boundary.retryCount = 3)
                 => boundary' = boundary]_vars

\* handleRetry was called with the error displayed after three retries, and
\* the error is still displayed
C28_Witness ==
    /\ last.op = "handleRetry"
    /\ boundary.retryCount = 3
    /\ boundary.hasError
    /\ boundary.enableRetry = JsUndefined
    /\ render(boundary).shows = "error-boundary"
    /\ Len(events) = 4

----------------------------------------------------------------------------
(* Properties of the message composer *)

Blank(c) == Length(Trim(c)) = 0

\* C29: every addMessage call the composer makes carries content that is
\* trimmed, not empty and at most 2000 characters long, is accepted by the
\* store and leaves the store's error field null; with an empty or blank input,
\* or with the composer disabled, no addMessage call is made and the input
\* stays as it is.
C29_ComposerSubmissions ==
    [][/\ last'.op = "addMessage" =>
              /\ last'.content.lead = 0 /\ last'.content.trail = 0
              /\ Length(last'.content) \in 1..2000
              /\ last'.accepted
              /\ error' = JsNull
              /\ ~Blank(composer.message) /\ ~composer.disabled
       /\ (last'.op \in {"sendMessage", "addMessage"}
               /\ (Blank(composer.message) \/ composer.disabled)) =>
              /\ last'.op = "sendMessage"
              /\ messages' = messages
              /\ producedIds' = producedIds
              /\ error' = error
              /\ composer'.message = composer.message]_vars

\* the composer sent what was left of a padded input that it had cut to 2000
\* characters, and emptied its input
C29_Witness ==
    /\ last.op = "addMessage" /\ last.accepted
    /\ last.id = composer.channelId
    /\ last.content = Content(0, MAX_CHARACTERS - 1, 0)
    /\ composer.message = NoContent
    /\ error = JsNull
    /\ ListOf(messages, last.id) /= <<>>

====
